---- MODULE Spec2Model ----
(***************************************************************************)
(* Authentication security subsystem of jobsdb-backend: brute-force guard, *)
(* login, two-factor (OTP) flow and trusted-device registry.               *)
(*                                                                         *)
(* Time is counted in whole minutes: the configuration's millisecond       *)
(* values (src/unnamed/part_003:71-76) are divided by 60000.  A handler    *)
(* runs at one instant `now`; the clock moves between handlers (Tick).     *)
(* LoginAttempt.userAgent is never read by any query and is left out.      *)
(***************************************************************************)
EXTENDS Integers, FiniteSets, Sequences, Bags, TLC

VARIABLES
    now,            \* the store's and the process's clock (minutes)
    users,          \* table users: user id -> row
    loginAttempts,  \* table login_attempts: a bag of rows (ids are opaque)
    trustedDevices, \* table trusted_devices: a set of rows
    issued,         \* temporary tokens signed so far (what a client can present)
    faults,         \* the calls that may fail in this behaviour
    limits,         \* how many rows and tokens this behaviour may hold
    ticks,          \* how often the clock may still move
    callers,        \* the login requests this behaviour's clients send
    steps,          \* by how many minutes it may move at once
    failed,         \* the store calls that failed in the last handler
    inflight,       \* the login handlers that run step by step
    history,        \* what has happened: the temporary tokens verifyOTP has
                    \* accepted, when regenerateOTP last accepted a request
    req,            \* the request being answered
    resp            \* its response

vars == <<now, users, loginAttempts, trustedDevices, issued, faults, limits, ticks,
          callers, steps, failed, inflight, history, req, resp>>

----------------------------------------------------------------------------
(* Program constants, in minutes. *)
MAX_LOGIN_ATTEMPTS == 5
LOCKOUT_DURATION == 5
ATTEMPT_WINDOW == 30
OTP_EXPIRY == 10
TRUSTED_DEVICE_EXPIRY == 60
TEMP_LIFETIME == 10
REGENERATE_INTERVAL == 1
FORGOT_INTERVAL == 1

(* Bounds of the model. *)
MaxTicks == 2
MaxTicksWide == 1
MaxRows == 7
MaxIssued == 2
MaxRowsNarrow == 2
MaxIssuedNarrow == 1

NullTime == 0 - 1
NoDevice == ""
NoUser == ""
NoOTP == ""
NoToken == [k |-> "none"]
GarbageToken == [k |-> "garbage"]

UserIds == {"u1"}
EmailIdentifiers == {"alice@x.com", "ghost@x.com"}
Uuids == {"uuid1", "uuid2", "uuid3", "uuid4", "uuid5", "uuid6", "uuid7", "uuid8"}
Otps == {"111111", "222222"}
GuardSteps == {1, LOCKOUT_DURATION, ATTEMPT_WINDOW + 1}
TwoFactorSteps == {REGENERATE_INTERVAL, OTP_EXPIRY, TRUSTED_DEVICE_EXPIRY + 1}

\* A second account, for the operations that look a user up by a code.
OtherUserIds == {"u2"}
EmailOf(u) == IF u \in UserIds THEN "alice@x.com" ELSE "bob@x.com"
UsernameOf(u) == IF u \in UserIds THEN "alice" ELSE "bob"

----------------------------------------------------------------------------
(* Store queries over login_attempts. *)

RECURSIVE SumCopies(_, _)
SumCopies(S, B) ==
    IF S = {} THEN 0
    ELSE LET r == CHOOSE x \in S : TRUE
         IN CopiesIn(r, B) + SumCopies(S \ {r}, B)

MaxAt(S) == CHOOSE t \in {r.at : r \in S} : \A r \in S : r.at <= t

Matches_IdentifierOnly(r, ip, id, dev) == r.id = id

\* The OR filter shared by the queries: ipAddress, usernameOrEmail, and the
\* request's deviceId when it has one.
Matches(r, ip, id, dev) ==
    \/ r.ip = ip
    \/ r.id = id
    \/ (dev # NoDevice /\ r.dev = dev)

Unlocked(left) == [isLocked |-> FALSE, left |-> left, remaining |-> NullTime]

StartCountFrom_WindowOnly(rows, ip, id, dev, t) == t - ATTEMPT_WINDOW

\* lastSuccessfulAttempt ? lastSuccessfulAttempt.createdAt : checkFrom
StartCountFrom(rows, ip, id, dev, t) ==
    LET succ == {r \in BagToSet(rows) : r.ok /\ Matches(r, ip, id, dev)}
        checkFrom == t - ATTEMPT_WINDOW
    IN  IF succ # {} THEN MaxAt(succ) ELSE checkFrom

\* The rows findFirst(createdAt > startCountFrom) ranges over.
FailedAfterFrom(rows, ip, id, dev, start) ==
    {r \in BagToSet(rows) : ~r.ok /\ Matches(r, ip, id, dev) /\ r.at > start}

\* loginAttempt.count(createdAt >= startCountFrom)
FailedAttemptsCountFrom(rows, ip, id, dev, start) ==
    SumCopies({r \in BagToSet(rows) :
                  ~r.ok /\ Matches(r, ip, id, dev) /\ r.at >= start}, rows)

FailedAfter(rows, ip, id, dev, t) ==
    FailedAfterFrom(rows, ip, id, dev, StartCountFrom(rows, ip, id, dev, t))

FailedAttemptsCount(rows, ip, id, dev, t) ==
    FailedAttemptsCountFrom(rows, ip, id, dev, StartCountFrom(rows, ip, id, dev, t))

LockDecision_ExactlyN(lastFailedAt, failedAttemptsCount, t) ==
    IF failedAttemptsCount # MAX_LOGIN_ATTEMPTS
    THEN Unlocked(MAX_LOGIN_ATTEMPTS - failedAttemptsCount)
    ELSE LET lockoutTime == lastFailedAt + LOCKOUT_DURATION
         IN  IF t < lockoutTime
             THEN [isLocked |-> TRUE, left |-> NullTime,
                   remaining |-> lockoutTime - t]
             ELSE Unlocked(NullTime)

\* What the guard answers once it has the last failure and the count.
LockDecision(lastFailedAt, failedAttemptsCount, t) ==
    IF failedAttemptsCount < MAX_LOGIN_ATTEMPTS
    THEN Unlocked(MAX_LOGIN_ATTEMPTS - failedAttemptsCount)
    ELSE LET lockoutTime == lastFailedAt + LOCKOUT_DURATION
         IN  IF t < lockoutTime
             THEN [isLocked |-> TRUE, left |-> NullTime,
                   remaining |-> lockoutTime - t]
             ELSE Unlocked(NullTime)

CheckBruteForceProtection_FailClosed(rows, ip, id, dev, t, storeFails) ==
    IF storeFails
    THEN [isLocked |-> TRUE, left |-> NullTime, remaining |-> LOCKOUT_DURATION]
    ELSE
    LET failedAfter == FailedAfter(rows, ip, id, dev, t)
    IN  IF failedAfter = {} THEN Unlocked(NullTime)
        ELSE LockDecision(MaxAt(failedAfter),
                          FailedAttemptsCount(rows, ip, id, dev, t), t)

\* checkBruteForceProtection: any store error answers not locked.
CheckBruteForceProtection(rows, ip, id, dev, t, storeFails) ==
    IF storeFails THEN Unlocked(NullTime)
    ELSE
    LET failedAfter == FailedAfter(rows, ip, id, dev, t)
    IN  IF failedAfter = {} THEN Unlocked(NullTime)
        ELSE LockDecision(MaxAt(failedAfter),
                          FailedAttemptsCount(rows, ip, id, dev, t), t)

AttemptRow(ip, id, ok, dev, uid, t) ==
    [ip |-> ip, id |-> id, ok |-> ok, dev |-> dev, uid |-> uid, at |-> t]

RecordLoginAttempt_SuccessOnly(rows, ip, id, ok, dev, uid, t, storeFails) ==
    IF storeFails \/ ~ok THEN rows
    ELSE rows (+) SetToBag({[ip |-> ip, id |-> id, ok |-> ok, dev |-> dev,
                             uid |-> uid, at |-> t]})

\* recordLoginAttempt: one row with the request's own deviceId; a store error is
\* swallowed.
RecordLoginAttempt(rows, ip, id, ok, dev, uid, t, storeFails) ==
    IF storeFails THEN rows
    ELSE rows (+) SetToBag({AttemptRow(ip, id, ok, dev, uid, t)})

\* resetFailedLoginAttempts: a success row carrying the handler's clientDeviceId,
\* then the userId backfill onto this window's unattributed rows.  Any store
\* error is swallowed; `failAt` is where it strikes ("none", "create", "update").
Backfilled(r, ip, id, dev, uid, t) ==
    IF /\ r.uid = NoUser
       /\ r.at >= t - ATTEMPT_WINDOW
       /\ (r.id = id \/ r.ip = ip \/ (dev # NoDevice /\ r.dev = dev))
    THEN [r EXCEPT !.uid = uid]
    ELSE r

ResetFailedLoginAttempts(rows, ip, id, dev, uid, t, failAt) ==
    IF failAt = "create" THEN rows
    ELSE LET created == rows (+) SetToBag({AttemptRow(ip, id, TRUE, dev, NoUser, t)})
             Fill(r) == Backfilled(r, ip, id, dev, uid, t)
         IN  IF failAt = "update" \/ uid = NoUser THEN created
             ELSE BagOfAll(Fill, created)

----------------------------------------------------------------------------
(* Users, tokens, trusted devices. *)

IsEmail(id) == id \in EmailIdentifiers \cup {EmailOf(u) : u \in OtherUserIds}

\* prisma.user.findFirst by email or by username, as the identifier is typed.
FindUser(us, id) ==
    LET hits == {u \in DOMAIN us :
                    IF IsEmail(id) THEN EmailOf(u) = id ELSE UsernameOf(u) = id}
    IN  IF hits = {} THEN NoUser ELSE CHOOSE u \in hits : TRUE

\* jwt.sign is a function of the payload and the issue time.
GenerateToken(uid, remember, t) ==
    [k |-> "session", id |-> uid, remember |-> remember, iat |-> t]

GenerateTempToken(uid, dev, t) ==
    [k |-> "temp", id |-> uid, dev |-> dev, iat |-> t]

\* jwt.verify: the payload of a token this server signed that has not expired,
\* null (NoToken) otherwise.
VerifyToken(tok, t) ==
    IF tok.k = "temp" /\ t < tok.iat + TEMP_LIFETIME THEN tok
    ELSE IF tok.k = "session" THEN tok
    ELSE NoToken

CheckTrustedDevice_IgnoringExpiry(tds, uid, dev, t, storeFails) ==
    IF dev = NoDevice THEN FALSE
    ELSE IF storeFails THEN FALSE
    ELSE \E d \in tds : d.uid = uid /\ d.dev = dev

CheckTrustedDevice(tds, uid, dev, t, storeFails) ==
    IF dev = NoDevice THEN FALSE
    ELSE IF storeFails THEN FALSE
    ELSE \E d \in tds : d.uid = uid /\ d.dev = dev /\ d.expiresAt > t

SaveTrustedDevice_AlwaysCreates(tds, uid, dev, t) ==
    IF dev = NoDevice THEN tds
    ELSE tds \cup {[uid |-> uid, dev |-> dev,
                    expiresAt |-> t + TRUSTED_DEVICE_EXPIRY]}

\* saveTrustedDevice: the row of (userId, deviceId) gets expiresAt = now + TTL;
\* it is created when there is none.
SaveTrustedDevice(tds, uid, dev, t) ==
    IF dev = NoDevice THEN tds
    ELSE LET existing == {d \in tds : d.uid = uid /\ d.dev = dev}
             row == [uid |-> uid, dev |-> dev, expiresAt |-> t + TRUSTED_DEVICE_EXPIRY]
         IN  IF existing # {}
             THEN LET e == CHOOSE d \in existing : TRUE
                  IN  (tds \ {e}) \cup {row}
             ELSE tds \cup {row}

UsedDevices ==
    {r.dev : r \in BagToSet(loginAttempts)} \cup {d.dev : d \in trustedDevices}
        \cup {tk.dev : tk \in issued}

\* uuidv4(): a device id no row, token or request holds.
FreshUuid == CHOOSE u \in Uuids : u \notin UsedDevices

Hash(tok) == [k |-> "sha256", of |-> tok]

\* createEmailVerification: a fresh OTP and link token; only the token's digest
\* and the expiry are stored.  twoFactorExpires and lastTempToken are not written.
CreateEmailVerification(us, uid, otp, raw, t) ==
    [us EXCEPT ![uid].twoFactorOTP = otp,
               ![uid].emailVerifyToken = Hash(raw),
               ![uid].emailVerifyExpires = t + OTP_EXPIRY]

Response(status, code, token, left, remaining) ==
    [status |-> status, code |-> code, token |-> token,
     left |-> left, remaining |-> remaining]

Idle == [op |-> "none"]

\* The handlers that run concurrently, and one that is not running.
Procs == {"p1", "p2"}
IdleProc ==
    [pc |-> "idle", r |-> Idle, dev |-> NoDevice, phase |-> "guard",
     start |-> NullTime, lastFailed |-> NullTime, left |-> NullTime,
     out |-> Idle, lockDue |-> FALSE]

----------------------------------------------------------------------------
\* login once resetFailedLoginAttempts has returned rows1: the unverified
\* account, the two-factor challenge, the session.
AfterReset(r, f, otp, raw, uid, clientDeviceId, rows1) ==
    LET same == [rows |-> loginAttempts, users |-> users, issued |-> issued,
                 resp |-> Idle, failed |-> {}]
    IN
    IF ~users[uid].isEmailVerified
    THEN [same EXCEPT
            !.rows = rows1,
            !.failed = f \cap {"guard", "reset", "backfill", "mail"},
            !.users = CreateEmailVerification(users, uid, otp, raw, now),
            !.resp = Response(403, "EMAIL_NOT_VERIFIED", raw, NullTime, NullTime)]
    ELSE
    LET rows2 == RecordLoginAttempt(rows1, r.ip, r.id, TRUE, r.dev, uid, now,
                                    "record" \in f)
        session == GenerateToken(uid, r.rememberMe, now)
        tempToken == GenerateTempToken(uid, clientDeviceId, now)
    IN
    IF users[uid].twoFactorEnabled
       /\ ~CheckTrustedDevice(trustedDevices, uid, clientDeviceId, now,
                              "trusted" \in f)
    THEN [same EXCEPT
            !.rows = rows2,
            !.failed = f \cap {"guard", "reset", "backfill", "record", "trusted",
                               "mail"},
            !.users = [users EXCEPT ![uid].twoFactorOTP = otp,
                                    ![uid].twoFactorExpires = now + OTP_EXPIRY,
                                    ![uid].lastTempToken = tempToken],
            !.issued = issued \cup {tempToken},
            !.resp = Response(200, "REQUIRE_TWO_FACTOR", tempToken, NullTime,
                              NullTime)]
    ELSE [same EXCEPT
            !.rows = rows2,
            !.failed = f \cap ({"guard", "reset", "backfill", "record"} \cup
                               IF users[uid].twoFactorEnabled THEN {"trusted"}
                               ELSE {}),
            !.resp = Response(200, "OK", session, NullTime, NullTime)]

(* POST /api/auth/login.  r is the request body plus the caller's address; f is
   the set of store calls that fail in this run of the handler; otp and raw are
   the random draws of generateOTP and crypto.randomBytes. *)

RejectLocked_RecordsAttempt(r, f, check) ==
    [rows |-> RecordLoginAttempt(loginAttempts, r.ip, r.id, FALSE, r.dev,
                                 FindUser(users, r.id), now, FALSE),
     users |-> users, issued |-> issued,
     resp |-> Response(429, "ACCOUNT_LOCKED", NoToken, NullTime, check.remaining),
     failed |-> f \cap {"guard"}]

\* The answer to a caller the first guard check finds locked: 429 with the
\* time remaining, before the user is looked up and with no store write.
RejectLocked(r, f, check) ==
    [rows |-> loginAttempts, users |-> users, issued |-> issued,
     resp |-> Response(429, "ACCOUNT_LOCKED", NoToken, NullTime, check.remaining),
     failed |-> f \cap {"guard"}]

LoginOutcome(r, f, otp, raw) ==
    LET clientDeviceId == IF r.dev # NoDevice THEN r.dev ELSE FreshUuid
        bruteForceCheck ==
            CheckBruteForceProtection(loginAttempts, r.ip, r.id, r.dev, now,
                                      "guard" \in f)
        uid == FindUser(users, r.id)
        same == [rows |-> loginAttempts, users |-> users, issued |-> issued,
                 resp |-> Idle, failed |-> {}]
    IN
    IF r.id = "" \/ r.pw = ""
    THEN [same EXCEPT !.resp =
            Response(400, "MISSING_CREDENTIALS", NoToken, NullTime, NullTime)]
    ELSE IF bruteForceCheck.isLocked
    THEN RejectLocked(r, f, bruteForceCheck)
    ELSE IF uid = NoUser
    THEN [same EXCEPT
            !.rows = RecordLoginAttempt(loginAttempts, r.ip, r.id, FALSE, r.dev,
                                        NoUser, now, "record" \in f),
            !.failed = f \cap {"guard", "record"},
            !.resp = Response(401, "INVALID_CREDENTIALS", NoToken,
                              bruteForceCheck.left, NullTime)]
    ELSE IF users[uid].password = ""
    THEN [same EXCEPT
            !.rows = RecordLoginAttempt(loginAttempts, r.ip, r.id, FALSE, r.dev,
                                        uid, now, "record" \in f),
            !.failed = f \cap {"guard", "record"},
            !.resp = Response(401, "OAUTH_ACCOUNT", NoToken,
                              bruteForceCheck.left, NullTime)]
    ELSE IF r.pw # users[uid].password
    THEN LET rows1 == RecordLoginAttempt(loginAttempts, r.ip, r.id, FALSE, r.dev,
                                         uid, now, "record" \in f)
             updatedCheck ==
                 CheckBruteForceProtection(rows1, r.ip, r.id, r.dev, now,
                                           "recheck" \in f)
         IN  [same EXCEPT
                !.rows = rows1,
                !.failed = f \cap {"guard", "record", "recheck"},
                !.resp = IF updatedCheck.isLocked
                         THEN Response(429, "ACCOUNT_LOCKED", NoToken, NullTime,
                                       updatedCheck.remaining)
                         ELSE Response(401, "INVALID_CREDENTIALS", NoToken,
                                       updatedCheck.left, NullTime)]
    ELSE AfterReset(r, f, otp, raw, uid, clientDeviceId,
                    ResetFailedLoginAttempts(loginAttempts, r.ip, r.id,
                        clientDeviceId, uid, now,
                        IF "reset" \in f THEN "create"
                        ELSE IF "backfill" \in f THEN "update" ELSE "none"))

FaultPoints ==
    {"guard", "record", "recheck", "reset", "backfill", "trusted", "mail"}
\* At most one store call fails in one run of the handler.
FaultChoices == {{}} \cup {{p} : p \in faults \cap FaultPoints}

\* The callers: pairwise they share the identifier, the address, the device,
\* or nothing.
ClientA == [ip |-> "1.2.3.4", id |-> "alice@x.com", dev |-> "d1"]
ClientB == [ip |-> "5.6.7.8", id |-> "alice@x.com", dev |-> NoDevice]
ClientC == [ip |-> "1.2.3.4", id |-> "ghost@x.com", dev |-> NoDevice]
ClientD == [ip |-> "5.6.7.8", id |-> "ghost@x.com", dev |-> "d1"]
ClientE == [ip |-> "5.6.7.8", id |-> "alice", dev |-> NoDevice]

\* The caller of verifyEmailWithOTP: its address and its user-agent header.
VerifyClient == [ip |-> "1.2.3.4", ua |-> "Mozilla/5.0"]

LoginRequest(c, pw) ==
    [op |-> "login", ip |-> c.ip, id |-> c.id, pw |-> pw, dev |-> c.dev,
     rememberMe |-> FALSE]

VerifyNonces == {"v1", "v2", "v3"}
RawTokens == [k : {"verify"}, n : VerifyNonces]

\* crypto.randomBytes(32) for uid's link token: a value no other account's
\* stored digest belongs to.
RawDraws(uid) ==
    LET free == {w \in RawTokens :
                    /\ \A u \in DOMAIN users \ {uid} :
                          users[u].emailVerifyToken # Hash(w)
                    /\ \A h \in history.verified : h.token # w}
    IN  {CHOOSE w \in free : TRUE}

\* generateOTP() is drawn only on the paths that store a code.
OtpDraws(r) ==
    LET uid == FindUser(users, r.id)
    IN  IF uid # NoUser /\ r.pw = users[uid].password THEN Otps ELSE {NoOTP}

Login(r) ==
    /\ r \in callers
    /\ r.dev = NoDevice => Uuids \ UsedDevices # {}
    /\ \E f \in FaultChoices, otp \in OtpDraws(r),
          raw \in RawDraws(FindUser(users, r.id)) :
          LET out == LoginOutcome(r, f, otp, raw)
          IN  /\ BagCardinality(out.rows) <= limits.rows
              /\ Cardinality(out.issued) <= limits.issued
              /\ loginAttempts' = out.rows
              /\ users' = out.users
              /\ issued' = out.issued
              /\ resp' = out.resp
              /\ req' = r
              /\ failed' = out.failed
    /\ UNCHANGED <<now, trustedDevices, faults, limits, ticks, callers, steps, inflight,
                   history>>

\* The clock moves between requests.
Tick ==
    /\ ticks > 0
    /\ \A p \in Procs : inflight[p].pc = "idle"
    /\ \E d \in steps : now' = now + d
    /\ ticks' = ticks - 1
    /\ req' = Idle
    /\ resp' = Idle
    /\ failed' = {}
    /\ UNCHANGED <<users, loginAttempts, trustedDevices, issued, faults, limits, callers,
                   steps, inflight, history>>

----------------------------------------------------------------------------
(* POST /api/auth/verify-otp and /api/auth/regenerate-otp. *)

\* constantTimeCompare(a, b): true exactly when the strings are equal.
ConstantTimeCompare(a, b) == a = b

OtpAcceptable_AnyCode(u, otp, t) ==
    /\ u.twoFactorOTP # NoOTP
    /\ u.twoFactorExpires # NullTime
    /\ ~(u.twoFactorExpires < t)

\* The stored code is there, not expired, and equal to the presented one.
OtpAcceptable(u, otp, t) ==
    /\ u.twoFactorOTP # NoOTP
    /\ u.twoFactorExpires # NullTime
    /\ ~(u.twoFactorExpires < t)
    /\ ConstantTimeCompare(u.twoFactorOTP, otp)

IsLatestTempToken_Always(u, tok) == TRUE

\* The presented token is the one stored as lastTempToken.
IsLatestTempToken(u, tok) ==
    /\ u.lastTempToken # NoToken
    /\ ConstantTimeCompare(u.lastTempToken, tok)

ClearedOtp(us, uid) ==
    [us EXCEPT ![uid].twoFactorOTP = NoOTP,
               ![uid].twoFactorExpires = NullTime,
               ![uid].lastTempToken = NoToken]

Failure(status, code) == Response(status, code, NoToken, NullTime, NullTime)

\* failAt: the store call that throws ("none", "clear", "save").
VerifyOTPOutcome(r, failAt) ==
    LET decoded == VerifyToken(r.tempToken, now)
        same == [users |-> users, tds |-> trustedDevices, resp |-> Idle,
                 failed |-> {}]
    IN
    IF r.otp = NoOTP \/ r.tempToken = NoToken
    THEN [same EXCEPT !.resp = Failure(400, "MISSING_DATA")]
    ELSE IF decoded = NoToken \/ decoded.k # "temp"
    THEN [same EXCEPT !.resp = Failure(400, "INVALID_TOKEN")]
    ELSE IF decoded.id \notin DOMAIN users
    THEN [same EXCEPT !.resp = Failure(400, "USER_NOT_FOUND")]
    ELSE IF ~OtpAcceptable(users[decoded.id], r.otp, now)
    THEN [same EXCEPT !.resp = Failure(400, "INVALID_OTP")]
    ELSE IF ~IsLatestTempToken(users[decoded.id], r.tempToken)
    THEN [same EXCEPT !.resp = Failure(400, "OUTDATED_TOKEN")]
    ELSE IF failAt = "clear"
    THEN [same EXCEPT !.resp = Failure(500, "ERROR"), !.failed = {"clear"}]
    ELSE IF r.rememberDevice /\ decoded.dev # NoDevice /\ failAt = "save"
    THEN [same EXCEPT !.users = ClearedOtp(users, decoded.id),
                      !.resp = Failure(500, "ERROR"), !.failed = {"save"}]
    ELSE [same EXCEPT
            !.users = ClearedOtp(users, decoded.id),
            !.tds = IF r.rememberDevice
                    THEN SaveTrustedDevice(trustedDevices, decoded.id,
                                           decoded.dev, now)
                    ELSE trustedDevices,
            !.resp = Response(200, "OK", GenerateToken(decoded.id, FALSE, now),
                              NullTime, NullTime)]

\* What a client can put in the tempToken field: a temporary token it was
\* sent, a session token, or something the server never signed.
SampleSession == GenerateToken("u1", FALSE, 0)
Presentable == issued \cup {SampleSession, GarbageToken}

VerifyOTPFaults == {"none"} \cup (faults \cap {"clear", "save"})
MailOutcomes == IF "mail" \in faults THEN BOOLEAN ELSE {TRUE}

VerifyOTP ==
    /\ \E otp \in Otps, tok \in Presentable, remember \in BOOLEAN,
          failAt \in VerifyOTPFaults :
          LET r == [op |-> "verifyOTP", otp |-> otp, tempToken |-> tok,
                    rememberDevice |-> remember]
              out == VerifyOTPOutcome(r, failAt)
          IN  /\ users' = out.users
              /\ trustedDevices' = out.tds
              /\ resp' = out.resp
              /\ req' = r
              /\ failed' = out.failed
              /\ history' = IF out.resp.status = 200
                             THEN [history EXCEPT
                                     !.consumed = @ \cup {tok},
                                     !.renewed = @ \cup (trustedDevices \ out.tds)]
                             ELSE history
    /\ UNCHANGED <<now, loginAttempts, issued, faults, limits, ticks, callers, steps,
                   inflight>>

\* otp is generateOTP()'s draw, mailOk what sendOTPEmail returns.
RegenerateOTPOutcome(r, otp, mailOk) ==
    LET decoded == VerifyToken(r.tempToken, now)
        same == [users |-> users, issued |-> issued, resp |-> Idle,
                 failed |-> {}]
    IN
    IF r.tempToken = NoToken
    THEN [same EXCEPT !.resp = Failure(400, "MISSING_TOKEN")]
    ELSE IF decoded = NoToken \/ decoded.k # "temp"
    THEN [same EXCEPT !.resp = Failure(400, "INVALID_TOKEN")]
    ELSE IF decoded.id \notin DOMAIN users
    THEN [same EXCEPT !.resp = Failure(400, "USER_NOT_FOUND")]
    ELSE IF ~users[decoded.id].twoFactorEnabled
    THEN [same EXCEPT !.resp = Failure(400, "2FA_NOT_ENABLED")]
    ELSE
    LET u == users[decoded.id]
        throttled == /\ u.twoFactorExpires # NullTime
                     /\ now - (u.twoFactorExpires - OTP_EXPIRY) < REGENERATE_INTERVAL
        newTempToken == GenerateTempToken(decoded.id, decoded.dev, now)
    IN
    IF throttled
    THEN [same EXCEPT !.resp =
            Response(429, "THROTTLED", NoToken, NullTime,
                     REGENERATE_INTERVAL - (now - (u.twoFactorExpires - OTP_EXPIRY)))]
    ELSE IF ~mailOk
    THEN [same EXCEPT !.users = ClearedOtp(users, decoded.id),
                      !.resp = Failure(500, "EMAIL_SEND_FAILED"),
                      !.failed = {"mail"}]
    ELSE [same EXCEPT
            !.users = [users EXCEPT ![decoded.id].twoFactorOTP = otp,
                                    ![decoded.id].twoFactorExpires = now + OTP_EXPIRY,
                                    ![decoded.id].lastTempToken = newTempToken],
            !.issued = issued \cup {newTempToken},
            !.resp = Response(200, "OTP_REGENERATED", newTempToken, NullTime,
                              NullTime)]

RegenerateOTP ==
    /\ \E tok \in Presentable, otp \in Otps, mailOk \in MailOutcomes :
          LET r == [op |-> "regenerateOTP", tempToken |-> tok]
              out == RegenerateOTPOutcome(r, otp, mailOk)
          IN  /\ Cardinality(out.issued) <= limits.issued
              /\ users' = out.users
              /\ issued' = out.issued
              /\ resp' = out.resp
              /\ req' = r
              /\ failed' = out.failed
              /\ history' = IF out.resp.status = 200
                             THEN [history EXCEPT !.regenerated = now]
                             ELSE history
    /\ UNCHANGED <<now, loginAttempts, trustedDevices, faults, limits, ticks, callers,
                   steps, inflight>>

----------------------------------------------------------------------------
UserRow(password, verified, twoFactor) ==
    [password |-> password, isEmailVerified |-> verified,
     twoFactorEnabled |-> twoFactor, twoFactorOTP |-> NoOTP,
     twoFactorExpires |-> NullTime, lastTempToken |-> NoToken,
     emailVerifyToken |-> NoToken, emailVerifyExpires |-> NullTime,
     provider |-> IF password = "" THEN "google" ELSE "local",
     providerId |-> IF password = "" THEN "g1" ELSE "",
     resetPasswordToken |-> NoToken, resetPasswordExpires |-> NullTime,
     lastWarningEmailSentAt |-> NullTime, warningEmailCount |-> 0,
     createdAt |-> 0]

LocalVerified == UserRow("good", TRUE, FALSE)
LocalTwoFactor == UserRow("good", TRUE, TRUE)
LocalUnverified == UserRow("good", FALSE, FALSE)
Federated == UserRow("", TRUE, FALSE)

\* What a behaviour starts from: the account that registration, federated login
\* or a 2FA toggle left behind, who calls, and how often the clock moves.
Scenario(account, who, moves) ==
    [users |-> [u \in UserIds |-> account], callers |-> who, ticks |-> moves,
     limits |-> [rows |-> MaxRows, issued |-> MaxIssued, resets |-> 1]]

Scenarios ==
    { Scenario(LocalVerified,
               {LoginRequest(ClientA, "good"), LoginRequest(ClientA, "bad"),
                LoginRequest(ClientB, "bad"), LoginRequest(ClientC, "bad"),
                LoginRequest(ClientD, "bad")}, MaxTicksWide),
      Scenario(LocalVerified,
               {LoginRequest(ClientA, "good"), LoginRequest(ClientA, "bad")},
               MaxTicks),
      Scenario(LocalUnverified,
               {LoginRequest(ClientA, "good"), LoginRequest(ClientA, "bad")},
               MaxTicksWide),
      Scenario(Federated,
               {LoginRequest(ClientA, "good"), LoginRequest(ClientB, "bad")},
               MaxTicksWide) }

TwoFactorScenarios ==
    { Scenario(LocalTwoFactor, {LoginRequest(ClientA, "good")}, MaxTicks),
      Scenario(LocalTwoFactor, {LoginRequest(ClientB, "good")}, MaxTicksWide),
      Scenario(LocalVerified, {LoginRequest(ClientA, "good")}, MaxTicksWide) }

InitStore(sc) ==
    /\ now = 0
    /\ ticks = sc.ticks
    /\ callers = sc.callers
    /\ limits = sc.limits
    /\ users = sc.users
    /\ loginAttempts = EmptyBag
    /\ trustedDevices = {}
    /\ issued = {}
    /\ req = Idle
    /\ resp = Idle
    /\ failed = {}
    /\ inflight = [p \in Procs |-> IdleProc]
    /\ history = [consumed |-> {}, regenerated |-> NullTime, renewed |-> {},
                  verified |-> {}, warned |-> {}, drawn |-> {},
                  redeemed |-> {}, forgotAt |-> NullTime]

\* The login guard: logins and the clock.
Init ==
    /\ faults = {}
    /\ steps = GuardSteps
    /\ \E sc \in Scenarios : InitStore(sc)

Next ==
    \/ \E r \in callers : Login(r)
    \/ Tick

Spec == Init /\ [][Next]_vars

\* Two-factor sign-in: logins, code verification, code regeneration.
InitTwoFactor ==
    /\ faults = {}
    /\ steps = TwoFactorSteps
    /\ \E sc \in TwoFactorScenarios : InitStore(sc)

NextTwoFactor ==
    \/ \E r \in callers : Login(r)
    \/ VerifyOTP
    \/ RegenerateOTP
    \/ Tick

SpecTwoFactor == InitTwoFactor /\ [][NextTwoFactor]_vars

\* The same handlers when store calls and the mail transport may fail.
StoreFaults == {"guard", "record", "recheck", "reset", "backfill", "trusted"}

FaultScenarios ==
    { Scenario(LocalVerified,
               {LoginRequest(ClientA, "good"), LoginRequest(ClientA, "bad")},
               MaxTicksWide),
      Scenario(LocalTwoFactor, {LoginRequest(ClientA, "good")}, MaxTicksWide) }

InitFault ==
    /\ faults = StoreFaults
    /\ steps = {LOCKOUT_DURATION}
    /\ \E sc \in FaultScenarios : InitStore(sc)

\* Logins and code verification under store failures.
NextFault ==
    \/ \E r \in callers : Login(r)
    \/ VerifyOTP
    \/ Tick

SpecFault == InitFault /\ [][NextFault]_vars

----------------------------------------------------------------------------
(* Vocabulary of the properties. *)

SharesDimension(x, r) ==
    \/ x.ip = r.ip
    \/ x.id = r.id
    \/ (r.dev # NoDevice /\ x.dev = r.dev)

FailuresSharing(r) == {x \in BagToSet(loginAttempts) : ~x.ok /\ SharesDimension(x, r)}
SuccessesSharing(r) == {x \in BagToSet(loginAttempts) : x.ok /\ SharesDimension(x, r)}
HowMany(S) == SumCopies(S, loginAttempts)
Latest(S) == CHOOSE t \in {x.at : x \in S} : \A x \in S : x.at <= t

IsLoginStep == req'.op = "login"
LockedOut(rsp) == rsp.status = 429 /\ rsp.code = "ACCOUNT_LOCKED"

\* N failures sharing a dimension with r lie within the window, no success
\* sharing a dimension with r is recorded since the first of them, and the last
\* of them is less than L old.
NFailuresNoSuccess(r) ==
    /\ FailuresSharing(r) # {}
    /\ now < Latest(FailuresSharing(r)) + LOCKOUT_DURATION
    /\ \E first \in {x.at : x \in FailuresSharing(r)} :
          /\ first >= now - ATTEMPT_WINDOW
          /\ HowMany({x \in FailuresSharing(r) : x.at >= first}) >= MAX_LOGIN_ATTEMPTS
          /\ \A x \in SuccessesSharing(r) : x.at < first

\* C1: after N failed attempts that share a dimension with the request, within
\* the window and with no success since, the next login is answered 429
\* ACCOUNT_LOCKED until L after the last failure, whatever its password, and
\* nothing is compared or written.
C1_LockedAfterNFailures ==
    [][ (IsLoginStep /\ NFailuresNoSuccess(req'))
          => /\ LockedOut(resp')
             /\ resp'.remaining = Latest(FailuresSharing(req')) + LOCKOUT_DURATION - now
             /\ loginAttempts' = loginAttempts
             /\ users' = users ]_vars

C1_Witness ==
    /\ req = LoginRequest(ClientA, "good")
    /\ LockedOut(resp)
    /\ \E x, y, z \in FailuresSharing(req) :
          /\ x.ip # req.ip /\ x.id = req.id
          /\ y.id # req.id /\ y.ip = req.ip
          /\ z.ip # req.ip /\ z.id # req.id /\ z.dev = req.dev

\* A success for r's identifier is on record and every failure sharing a
\* dimension with r is older than it.
SuccessThenNoFailure(r) ==
    LET mine == {x \in BagToSet(loginAttempts) : x.ok /\ x.id = r.id}
    IN  /\ mine # {}
        /\ \A x \in FailuresSharing(r) : x.at < Latest(mine)

CountingStart(r) ==
    LET w == now - ATTEMPT_WINDOW
    IN  IF SuccessesSharing(r) # {} /\ Latest(SuccessesSharing(r)) > w
        THEN Latest(SuccessesSharing(r)) ELSE w

Counted(r) == {x \in FailuresSharing(r) : x.at >= CountingStart(r)}

\* C3: the guard never counts a failed attempt older than now - W, also when
\* the most recent success sharing a dimension is itself older than now - W.
C3_NeverCountsOlderThanWindow ==
    \A r \in callers :
        FailedAfter(loginAttempts, r.ip, r.id, r.dev, now) # {}
            => FailedAttemptsCount(loginAttempts, r.ip, r.id, r.dev, now)
                 <= HowMany({x \in FailuresSharing(r) : x.at >= now - ATTEMPT_WINDOW})

\* C4: once a lockout has expired, one fresh failed attempt does not lock the
\* identifier again.
C4_FreshFailureAfterExpiry ==
    [][ (/\ IsLoginStep
         /\ HowMany(Counted(req')) >= MAX_LOGIN_ATTEMPTS
         /\ now >= Latest(Counted(req')) + LOCKOUT_DURATION)
          => ~LockedOut(resp') ]_vars

\* Some row of r at this instant with this verdict has one more copy after
\* the step than before it.
Appended(r, verdict) ==
    \E x \in BagToSet(loginAttempts') :
        /\ x.ip = r.ip /\ x.id = r.id /\ x.at = now /\ x.ok = verdict
        /\ BagCardinality(loginAttempts') > BagCardinality(loginAttempts)

\* The request is not turned away by the guard at the door.
PassedGuard(r) ==
    ~CheckBruteForceProtection(loginAttempts, r.ip, r.id, r.dev, now, FALSE).isLocked

----------------------------------------------------------------------------
(* Two-factor sign-in (SpecTwoFactor). *)

IsVerifyStep == req'.op = "verifyOTP"

\* A TrustedDevice row for (uid, dev) that has not expired.
TrustedRow(uid, dev) ==
    \E d \in trustedDevices : d.uid = uid /\ d.dev = dev /\ d.expiresAt > now

\* The request names a verified account and carries its password.
GoodLoginOf(r, uid) ==
    /\ uid \in DOMAIN users
    /\ r.id \in {EmailOf(uid), UsernameOf(uid)}
    /\ users[uid].isEmailVerified
    /\ users[uid].password # "" /\ r.pw = "good"

\* C8: a login of a verified user with the correct password that the guard
\* lets through gets a session token when two-factor is off; when it is on and
\* no unexpired TrustedDevice row exists for (user, deviceId) it stores a code,
\* its expiry and lastTempToken and answers with the temporary token only;
\* when such a row exists it gets a session token and the code state is kept.
C8_TwoFactorBranches ==
    [][ \A uid \in UserIds :
          (IsLoginStep /\ PassedGuard(req') /\ GoodLoginOf(req', uid))
          => IF ~users[uid].twoFactorEnabled \/ TrustedRow(uid, req'.dev)
             THEN /\ resp'.status = 200
                  /\ resp'.token = GenerateToken(uid, req'.rememberMe, now)
                  /\ users' = users
                  /\ issued' = issued
             ELSE /\ resp'.status = 200
                  /\ resp'.token.k = "temp" /\ resp'.token.id = uid
                  /\ users'[uid].twoFactorOTP \in Otps
                  /\ users'[uid].twoFactorExpires = now + OTP_EXPIRY
                  /\ users'[uid].lastTempToken = resp'.token ]_vars

C8_Witness ==
    /\ req.op = "login"
    /\ users["u1"].twoFactorEnabled
    /\ TrustedRow("u1", req.dev)
    /\ resp.token.k = "session"

\* Everything verifyOTP asks of a request before it issues a session token.
VerifyConditions(r) ==
    LET tok == r.tempToken
    IN  /\ tok \in issued /\ tok.k = "temp"
        /\ now < tok.iat + TEMP_LIFETIME
        /\ tok.id \in DOMAIN users
        /\ users[tok.id].twoFactorOTP = r.otp
        /\ users[tok.id].twoFactorExpires >= now
        /\ users[tok.id].lastTempToken = tok

\* C9: verifyOTP issues a session token only to a request whose temporary
\* token is signed, unexpired and marked temporary, whose user exists, whose
\* code equals the stored one, is unexpired, and whose token is the stored
\* lastTempToken; any other request gets no token and changes no stored state.
C9_VerifyIssuesOnlyWhenAllHold ==
    [][ IsVerifyStep
          => /\ resp'.token # NoToken => VerifyConditions(req')
             /\ VerifyConditions(req') =>
                   resp'.token = GenerateToken(req'.tempToken.id, FALSE, now)
             /\ ~VerifyConditions(req') =>
                   /\ resp'.token = NoToken
                   /\ resp'.status = 400
                   /\ users' = users
                   /\ trustedDevices' = trustedDevices ]_vars

C9_Witness ==
    /\ req.op = "verifyOTP"
    /\ resp.status = 200 /\ resp.token.k = "session"
    /\ \E tok \in issued : tok.iat < now /\ tok # req.tempToken
    /\ users["u1"].twoFactorOTP = NoOTP

\* tok was issued to its user before the temporary token now on record.
Superseded(tok) ==
    /\ tok \in issued
    /\ tok.id \in DOMAIN users
    /\ users[tok.id].lastTempToken \notin {NoToken, tok}
    /\ users[tok.id].lastTempToken.iat >= tok.iat

----------------------------------------------------------------------------
(* Store failures in the defensive helpers (SpecFault). *)

\* The request names an account with a password and carries that password.
GoodPassword(r) ==
    LET uid == FindUser(users, r.id)
    IN  uid # NoUser /\ users[uid].password # "" /\ r.pw = users[uid].password

\* C6 as stated: with a store failure in the guard, the recording or the
\* trusted-device check, login answers as it would have without the failure.
C6_SameResponseAsWithoutFailure ==
    [][ IsLoginStep
          => \A o \in Otps, w \in RawTokens :
                LET clean == LoginOutcome(req', {}, o, w).resp
                IN  /\ resp'.status = clean.status
                    /\ resp'.code = clean.code ]_vars

\* C6: a store failure in the guard, the recording or the trusted-device check
\* never aborts login (no 5xx): a failed guard counts as not locked, so the
\* password is judged even for a caller the guard would have locked; a failed
\* recording writes nothing and the answer is computed without that row; a
\* failed device check counts as not trusted, so the caller is asked for a
\* code.  The password verdict is the one a caller who passed the guard gets.
C6_DegradesToSafeDefault ==
    [][ IsLoginStep
          => /\ resp'.status \in {200, 401, 403, 429}
             /\ (PassedGuard(req') \/ "guard" \in failed')
                   => (GoodPassword(req') <=> resp'.status \in {200, 403})
             /\ (~PassedGuard(req') /\ "guard" \notin failed')
                   => LockedOut(resp') /\ loginAttempts' = loginAttempts
             /\ ("record" \in failed' /\ ~GoodPassword(req'))
                   => /\ loginAttempts' = loginAttempts
                      /\ resp'.status =
                            IF CheckBruteForceProtection(loginAttempts, req'.ip,
                                  req'.id, req'.dev, now, FALSE).isLocked
                            THEN 429 ELSE 401
             /\ "trusted" \in failed'
                   => resp'.code = "REQUIRE_TWO_FACTOR" /\ resp'.token.k = "temp"
        ]_vars

C6_Witness ==
    /\ req.op = "login" /\ req.pw = "good"
    /\ failed = {"guard"}
    /\ resp.status = 200
    /\ HowMany({x \in FailuresSharing(req) : x.at > now - LOCKOUT_DURATION})
          >= MAX_LOGIN_ATTEMPTS

----------------------------------------------------------------------------
(* Concurrent logins (SpecConc): the login handler one store call at a time.
   Each handler keeps what the code keeps in local constants.  The clock stands
   still while a handler runs. *)

Local(p) == inflight[p]
At(p, pc) == inflight[p].pc = pc
Goto(p, l) == inflight' = [inflight EXCEPT ![p] = l]

UnchangedStore == UNCHANGED <<users, loginAttempts, trustedDevices, issued>>
UnchangedWorld ==
    UNCHANGED <<now, faults, limits, ticks, callers, steps, failed, history>>

Locked429(check) ==
    Response(429, "ACCOUNT_LOCKED", NoToken, NullTime, check.remaining)

\* What login does with the guard's answer: the first check lets the request
\* through or rejects it, the check after a wrong password picks the answer.
AfterCheck(l, check) ==
    IF l.phase = "guard"
    THEN IF check.isLocked
         THEN [l EXCEPT !.pc = "respond", !.out = Locked429(check)]
         ELSE [l EXCEPT !.pc = "find", !.left = check.left]
    ELSE [l EXCEPT !.pc = "respond",
                   !.out = IF check.isLocked THEN Locked429(check)
                           ELSE Response(401, "INVALID_CREDENTIALS", NoToken,
                                         check.left, NullTime)]

\* The request arrives and the guard reads the last success.
Begin(p, r) ==
    /\ At(p, "idle")
    /\ r \in callers
    /\ r.dev = NoDevice => Uuids \ UsedDevices # {}
    /\ Goto(p, IF r.id = "" \/ r.pw = ""
               THEN [IdleProc EXCEPT
                       !.pc = "respond", !.r = r,
                       !.out = Response(400, "MISSING_CREDENTIALS", NoToken,
                                        NullTime, NullTime)]
               ELSE [IdleProc EXCEPT
                       !.pc = "lastFailed", !.r = r,
                       !.dev = IF r.dev # NoDevice THEN r.dev ELSE FreshUuid,
                       !.start = StartCountFrom(loginAttempts, r.ip, r.id,
                                                r.dev, now),
                       !.lockDue = NFailuresNoSuccess(r)])
    /\ UNCHANGED <<req, resp>>
    /\ UnchangedStore /\ UnchangedWorld

\* The guard reads the last success again, after a wrong password.
LastSuccessStep(p) ==
    /\ At(p, "lastSuccess")
    /\ LET l == Local(p)
       IN  Goto(p, [l EXCEPT !.pc = "lastFailed",
                             !.start = StartCountFrom(loginAttempts, l.r.ip,
                                                      l.r.id, l.r.dev, now)])
    /\ UNCHANGED <<req, resp>>
    /\ UnchangedStore /\ UnchangedWorld

\* The guard reads the last failure after startCountFrom.
LastFailedStep(p) ==
    /\ At(p, "lastFailed")
    /\ LET l == Local(p)
           after == FailedAfterFrom(loginAttempts, l.r.ip, l.r.id, l.r.dev, l.start)
       IN  Goto(p, IF after = {} THEN AfterCheck(l, Unlocked(NullTime))
                   ELSE [l EXCEPT !.pc = "count", !.lastFailed = MaxAt(after)])
    /\ UNCHANGED <<req, resp>>
    /\ UnchangedStore /\ UnchangedWorld

\* The guard counts the failures from startCountFrom and decides.
CountStep(p) ==
    /\ At(p, "count")
    /\ LET l == Local(p)
           n == FailedAttemptsCountFrom(loginAttempts, l.r.ip, l.r.id, l.r.dev,
                                        l.start)
       IN  Goto(p, AfterCheck(l, LockDecision(l.lastFailed, n, now)))
    /\ UNCHANGED <<req, resp>>
    /\ UnchangedStore /\ UnchangedWorld

\* The user is looked up and the password compared.
FindStep(p) ==
    /\ At(p, "find")
    /\ LET l == Local(p)
           uid == FindUser(users, l.r.id)
       IN  Goto(p, IF uid = NoUser \/ users[uid].password = ""
                      \/ l.r.pw # users[uid].password
                   THEN [l EXCEPT !.pc = "record"]
                   ELSE [l EXCEPT !.pc = "reset"])
    /\ UNCHANGED <<req, resp>>
    /\ UnchangedStore /\ UnchangedWorld

\* The failed attempt is recorded.
RecordStep(p) ==
    /\ At(p, "record")
    /\ LET l == Local(p)
           uid == FindUser(users, l.r.id)
           rows1 == RecordLoginAttempt(loginAttempts, l.r.ip, l.r.id, FALSE,
                                       l.r.dev, uid, now, FALSE)
       IN  /\ BagCardinality(rows1) <= limits.rows
           /\ loginAttempts' = rows1
           /\ Goto(p, IF uid = NoUser \/ users[uid].password = ""
                      THEN [l EXCEPT
                              !.pc = "respond",
                              !.out = Response(401,
                                         IF uid = NoUser
                                         THEN "INVALID_CREDENTIALS"
                                         ELSE "OAUTH_ACCOUNT",
                                         NoToken, l.left, NullTime)]
                      ELSE [l EXCEPT !.pc = "lastSuccess", !.phase = "recheck"])
    /\ UNCHANGED <<req, resp, users, trustedDevices, issued>>
    /\ UnchangedWorld

\* The password was right: the success row is written.
ResetStep(p) ==
    /\ At(p, "reset")
    /\ LET l == Local(p)
           rows1 == ResetFailedLoginAttempts(loginAttempts, l.r.ip, l.r.id,
                        l.dev, FindUser(users, l.r.id), now, "none")
       IN  /\ BagCardinality(rows1) <= limits.rows
           /\ loginAttempts' = rows1
           /\ Goto(p, [l EXCEPT !.pc = "finish"])
    /\ UNCHANGED <<req, resp, users, trustedDevices, issued>>
    /\ UnchangedWorld

\* The rest of a login with the right password.
FinishStep(p) ==
    /\ At(p, "finish")
    /\ \E otp \in OtpDraws(Local(p).r),
          raw \in RawDraws(FindUser(users, Local(p).r.id)) :
          LET l == Local(p)
              out == AfterReset(l.r, {}, otp, raw, FindUser(users, l.r.id),
                                l.dev, loginAttempts)
          IN  /\ BagCardinality(out.rows) <= limits.rows
              /\ Cardinality(out.issued) <= limits.issued
              /\ loginAttempts' = out.rows
              /\ users' = out.users
              /\ issued' = out.issued
              /\ Goto(p, [l EXCEPT !.pc = "respond", !.out = out.resp])
    /\ UNCHANGED <<req, resp, trustedDevices>>
    /\ UnchangedWorld

\* The response is sent.
RespondStep(p) ==
    /\ At(p, "respond")
    /\ req' = Local(p).r
    /\ resp' = Local(p).out
    /\ Goto(p, IdleProc)
    /\ UnchangedStore /\ UnchangedWorld

ConcScenarios ==
    { Scenario(LocalVerified,
               {LoginRequest(ClientA, "good"), LoginRequest(ClientA, "bad")},
               MaxTicksWide) }

InitConc ==
    /\ faults = {}
    /\ steps = {LOCKOUT_DURATION}
    /\ \E sc \in ConcScenarios : InitStore(sc)

NextConc ==
    \/ \E p \in Procs, r \in callers : Begin(p, r)
    \/ \E p \in Procs : LastSuccessStep(p)
    \/ \E p \in Procs : LastFailedStep(p)
    \/ \E p \in Procs : CountStep(p)
    \/ \E p \in Procs : FindStep(p)
    \/ \E p \in Procs : RecordStep(p)
    \/ \E p \in Procs : ResetStep(p)
    \/ \E p \in Procs : FinishStep(p)
    \/ \E p \in Procs : RespondStep(p)
    \/ Tick

SpecConc == InitConc /\ [][NextConc]_vars

\* Handler p has made a failed credential check and recorded it.
PastRecord(p) ==
    \/ Local(p).phase = "recheck"
    \/ At(p, "respond") /\ Local(p).out.status = 401

\* The failure rows written now for request r.
FailureRowsOf(r) ==
    {x \in BagToSet(loginAttempts) :
        ~x.ok /\ x.ip = r.ip /\ x.id = r.id /\ x.dev = r.dev /\ x.at = now}

\* C7: under any interleaving of concurrent logins every failed credential
\* check has its failure row in the store before its response is sent, and a
\* login that begins when N failures are recorded (within W, no success since,
\* within L of the latest) is answered 429 ACCOUNT_LOCKED by the guard, without
\* a credential check.
C7_RaceCannotPreventLockout ==
    /\ [](\A r \in callers :
            HowMany(FailureRowsOf(r))
              >= Cardinality({p \in Procs : PastRecord(p) /\ Local(p).r = r}))
    /\ [][ \A p \in Procs :
             (At(p, "respond") /\ inflight'[p].pc = "idle" /\ Local(p).lockDue)
             => /\ LockedOut(resp')
                /\ Local(p).phase = "guard" ]_vars

\* The race: two handlers pass the guard on the same count, so more than N
\* failures stand recorded at one instant, and the next login is locked out.
C7_Witness ==
    /\ req.op = "login"
    /\ LockedOut(resp)
    /\ \A p \in Procs : At(p, "idle")
    /\ HowMany(FailureRowsOf(req)) > MAX_LOGIN_ATTEMPTS
    /\ SuccessesSharing(req) = {}

----------------------------------------------------------------------------
(* Single use of the (code, temporary token) pair (SpecTwoFactor). *)

\* C11: a successful verifyOTP clears twoFactorOTP, twoFactorExpires and
\* lastTempToken, and a temporary token that verifyOTP has accepted once is
\* never accepted again, whatever happened in between.
C11_PairIsSingleUse ==
    [][ IsVerifyStep
          => /\ resp'.status = 200 =>
                   LET u == users'[req'.tempToken.id]
                   IN  /\ u.twoFactorOTP = NoOTP
                       /\ u.twoFactorExpires = NullTime
                       /\ u.lastTempToken = NoToken
             /\ req'.tempToken \in history.consumed => resp'.token = NoToken ]_vars

----------------------------------------------------------------------------
(* Authentication middleware (SpecAuth).  The bearer token is NoToken when the
   Authorization header is missing; user is what ends up in req.user and next
   says whether the route handler runs. *)

Guarded(status, code, uid, next) ==
    [status |-> status, code |-> code, user |-> uid, next |-> next]

AuthenticateUserOutcome(tok) ==
    LET decoded == VerifyToken(tok, now)
    IN  IF tok = NoToken THEN Guarded(401, "NO_TOKEN", NoUser, FALSE)
        ELSE IF decoded = NoToken
        THEN Guarded(401,
                     IF tok.k = "temp" THEN "TOKEN_EXPIRED" ELSE "INVALID_TOKEN",
                     NoUser, FALSE)
        ELSE IF decoded.k = "temp"
        THEN Guarded(401, "REQUIRES_2FA", NoUser, FALSE)
        ELSE IF decoded.id \notin DOMAIN users
        THEN Guarded(401, "USER_NOT_FOUND", NoUser, FALSE)
        ELSE Guarded(200, "OK", decoded.id, TRUE)

OptionalAuthOutcome(tok) ==
    LET decoded == VerifyToken(tok, now)
    IN  IF tok = NoToken THEN Guarded(200, "OK", NoUser, TRUE)
        ELSE IF decoded # NoToken /\ decoded.id \in DOMAIN users
        THEN Guarded(200, "OK", decoded.id, TRUE)
        ELSE Guarded(200, "OK", NoUser, TRUE)

Bearers == Presentable \cup {NoToken}

Guard(middleware, outcome) ==
    /\ req' = [op |-> "authenticate", middleware |-> middleware,
               token |-> outcome.tok]
    /\ resp' = outcome.out
    /\ failed' = {}
    /\ UNCHANGED <<now, users, loginAttempts, trustedDevices, issued, faults, limits,
                   ticks, callers, steps, inflight, history>>

AuthenticateUser ==
    \E tok \in Bearers :
        Guard("authenticateUser",
              [tok |-> tok, out |-> AuthenticateUserOutcome(tok)])

OptionalAuth ==
    \E tok \in Bearers :
        Guard("optionalAuth", [tok |-> tok, out |-> OptionalAuthOutcome(tok)])

AuthScenarios ==
    { Scenario(LocalTwoFactor,
               {LoginRequest(ClientA, "good"), LoginRequest(ClientB, "good")},
               MaxTicks) }

InitAuth ==
    /\ faults = {}
    /\ steps = {REGENERATE_INTERVAL, TEMP_LIFETIME}
    /\ \E sc \in AuthScenarios : InitStore(sc)

NextAuth ==
    \/ \E r \in callers : Login(r)
    \/ AuthenticateUser
    \/ OptionalAuth
    \/ Tick

SpecAuth == InitAuth /\ [][NextAuth]_vars

\* C12: no authentication middleware attaches a user to the request, or lets
\* the handler run as that user, on the strength of a token flagged temp.
C12_TempTokenIsNoCredential ==
    [][ (req'.op = "authenticate" /\ req'.token.k = "temp")
          => resp'.user = NoUser ]_vars

----------------------------------------------------------------------------
(* Rate limit of regenerateOTP (SpecTwoFactor). *)

IsRegenerateStep == req'.op = "regenerateOTP"

\* The request carries a valid temporary token of a two-factor user whose
\* current code was issued less than the interval ago.
TooSoon(r) ==
    LET tok == r.tempToken
    IN  /\ tok \in issued /\ now < tok.iat + TEMP_LIFETIME
        /\ tok.id \in DOMAIN users
        /\ users[tok.id].twoFactorEnabled
        /\ users[tok.id].twoFactorOTP # NoOTP
        /\ users[tok.id].twoFactorExpires # NullTime
        /\ now - (users[tok.id].twoFactorExpires - OTP_EXPIRY) < REGENERATE_INTERVAL

\* C13: two accepted regenerateOTP requests of a user are at least 60 seconds
\* apart, and a request made less than 60 seconds after the current code was
\* issued is answered 429 and leaves the code state unchanged.
C13_RegenerateRateLimited ==
    [][ IsRegenerateStep
          => /\ (resp'.status = 200 /\ history.regenerated # NullTime)
                   => now - history.regenerated >= REGENERATE_INTERVAL
             /\ TooSoon(req')
                   => /\ resp'.status = 429 /\ resp'.code = "THROTTLED"
                      /\ users' = users /\ issued' = issued ]_vars

----------------------------------------------------------------------------
(* Undelivered codes (SpecMail): the handlers that mail a code, when the mail
   transport may report failure. *)

MailScenarios ==
    { Scenario(LocalTwoFactor, {LoginRequest(ClientA, "good")}, MaxTicksWide),
      Scenario(LocalUnverified, {LoginRequest(ClientA, "good")}, MaxTicksWide) }

InitMail ==
    /\ faults = {"mail"}
    /\ steps = {REGENERATE_INTERVAL}
    /\ \E sc \in MailScenarios : InitStore(sc)

SpecMail == InitMail /\ [][NextTwoFactor]_vars

\* C14: when a code has been written for a user and the email that carries it
\* is reported as not sent (login's two-factor challenge, regenerateOTP, the
\* verification mail), the code is cleared before the request completes.
C14_UndeliveredCodeIsCleared ==
    [][ (req'.op \in {"login", "regenerateOTP"} /\ "mail" \in failed')
          => \A u \in DOMAIN users' : users'[u].twoFactorOTP = NoOTP ]_vars

----------------------------------------------------------------------------
(* What a rejection tells the caller (SpecTwoFactor). *)

\* The answer verifyOTP gives to the same code presented with a token the
\* server never signed.
InvalidTokenAnswer(r) ==
    VerifyOTPOutcome([r EXCEPT !.tempToken = GarbageToken], "none").resp

\* C15: every verifyOTP rejection caused by a wrong or expired code or by an
\* invalid, expired or superseded temporary token carries the same status and
\* code, so the caller cannot tell which check failed.
C15_RejectionsAreUniform ==
    [][ (IsVerifyStep /\ resp'.status # 200)
          => resp' = InvalidTokenAnswer(req') ]_vars

----------------------------------------------------------------------------
(* Trusted-device rows (SpecTwoFactor). *)

RowsOf(tds, uid, dev) == {d \in tds : d.uid = uid /\ d.dev = dev}

\* The step is a verifyOTP that succeeded and remembered the token's device.
IsSaveStep ==
    /\ IsVerifyStep
    /\ resp'.status = 200
    /\ req'.rememberDevice
    /\ req'.tempToken.dev # NoDevice

\* C17: there is at most one TrustedDevice row per (userId, deviceId), and a
\* saveTrustedDevice call leaves exactly one row for its pair, with expiresAt
\* = now + TTL, creating a row only when the pair had none.
C17_OneRowPerDevice ==
    /\ [](\A d1, d2 \in trustedDevices :
            (d1.uid = d2.uid /\ d1.dev = d2.dev) => d1 = d2)
    /\ [][ IsSaveStep
             => LET uid == req'.tempToken.id
                    dev == req'.tempToken.dev
                IN  /\ RowsOf(trustedDevices', uid, dev)
                         = {[uid |-> uid, dev |-> dev,
                             expiresAt |-> now + TRUSTED_DEVICE_EXPIRY]}
                    /\ trustedDevices' \ RowsOf(trustedDevices', uid, dev)
                         = trustedDevices \ RowsOf(trustedDevices, uid, dev) ]_vars

\* A repeat call has replaced the expiry of an existing row at a later time.
C17_Witness ==
    /\ req.op = "verifyOTP" /\ resp.status = 200 /\ req.rememberDevice
    /\ \E old \in history.renewed :
          /\ old.uid = req.tempToken.id /\ old.dev = req.tempToken.dev
          /\ old.expiresAt < now + TRUSTED_DEVICE_EXPIRY
          /\ RowsOf(trustedDevices, old.uid, old.dev)
               = {[old EXCEPT !.expiresAt = now + TRUSTED_DEVICE_EXPIRY]}

----------------------------------------------------------------------------
(* Passwords and the 2FA switch (SpecDevices): toggleTwoFactor, forgotPassword,
   resetPassword and changePassword, next to login and verifyOTP. *)

\* validatePassword: length, upper case, lower case and digit.  "weak" stands
\* for a password that fails one of them.
ValidatePassword(pw) == pw # "weak"

\* comparePassword (bcrypt.compare) of a typed password with a stored one.
ComparePassword(pw, stored) == pw = stored

ResetNonceSeq == <<"r1", "r2", "r3">>
ResetNonces == {ResetNonceSeq[i] : i \in DOMAIN ResetNonceSeq}
ResetTokens == [k : {"reset"}, n : ResetNonces]

\* The reset tokens a behaviour deals with: limits.resets of them.
ResetTokensInUse ==
    {[k |-> "reset", n |-> ResetNonceSeq[i]] : i \in 1..limits.resets}

\* crypto.randomBytes(32) of forgotPassword: a token never drawn before, or
\* none once the behaviour's tokens are used up.
ResetDraws ==
    LET i == Cardinality(history.drawn) + 1
    IN  IF i <= limits.resets
        THEN {[k |-> "reset", n |-> ResetNonceSeq[i]]}
        ELSE {NoToken}

Answer(status, code, uid) ==
    [status |-> status, code |-> code, token |-> NoToken, user |-> uid]

DeleteTrustedDevices(tds, uid) == {d \in tds : d.uid # uid}

\* POST /api/auth/toggle-two-factor behind authenticateUser.  deleteFails: the
\* trustedDevice.deleteMany call throws.
ToggleTwoFactorOutcome(r, deleteFails) ==
    LET auth == AuthenticateUserOutcome(r.token)
        uid == auth.user
        same == [users |-> users, tds |-> trustedDevices, resp |-> Idle,
                 failed |-> {}]
    IN
    IF ~auth.next
    THEN [same EXCEPT !.resp = Answer(auth.status, auth.code, NoUser)]
    ELSE IF users[uid].provider # "local" /\ r.enable
    THEN [same EXCEPT !.resp = Answer(400, "OAUTH_NOT_SUPPORTED", uid)]
    ELSE IF r.enable
    THEN [same EXCEPT !.users = [users EXCEPT ![uid].twoFactorEnabled = TRUE],
                      !.resp = Answer(200, "OK", uid)]
    ELSE IF deleteFails
    THEN [same EXCEPT !.users = [users EXCEPT ![uid].twoFactorEnabled = FALSE],
                      !.resp = Answer(500, "ERROR", uid),
                      !.failed = {"devices"}]
    ELSE [same EXCEPT
            !.users = ClearedOtp([users EXCEPT ![uid].twoFactorEnabled = FALSE],
                                 uid),
            !.tds = DeleteTrustedDevices(trustedDevices, uid),
            !.resp = Answer(200, "OK", uid)]

\* POST /api/auth/forgot-password.  raw is crypto.randomBytes' draw, mailOk what
\* sendEmail returns.
ForgotPasswordOutcome(r, raw, mailOk) ==
    LET uid == IF IsEmail(r.email) THEN FindUser(users, r.email) ELSE NoUser
        same == [users |-> users, tds |-> trustedDevices, resp |-> Idle,
                 failed |-> {}]
    IN
    IF r.email = ""
    THEN [same EXCEPT !.resp = Answer(400, "MISSING_EMAIL", NoUser)]
    ELSE IF uid = NoUser
    THEN [same EXCEPT !.resp = Answer(200, "SENT_IF_EXISTS", NoUser)]
    ELSE IF users[uid].provider # "local"
    THEN [same EXCEPT !.resp = Answer(400, "OAUTH_ACCOUNT", uid)]
    ELSE IF /\ users[uid].resetPasswordExpires # NullTime
            /\ users[uid].resetPasswordExpires > now - FORGOT_INTERVAL
    THEN [same EXCEPT !.resp = Answer(429, "REQUEST_THROTTLED", uid)]
    ELSE IF ~mailOk
    THEN [same EXCEPT
            !.users = [users EXCEPT ![uid].resetPasswordToken = NoToken,
                                    ![uid].resetPasswordExpires = NullTime],
            !.resp = Answer(500, "EMAIL_SEND_FAILED", uid),
            !.failed = {"mail"}]
    ELSE [same EXCEPT
            !.users = [users EXCEPT ![uid].resetPasswordToken = Hash(raw),
                                    ![uid].resetPasswordExpires = now + OTP_EXPIRY],
            !.resp = [Answer(200, "SENT", uid) EXCEPT !.token = raw]]

FindByResetToken_IgnoresExpiry(us, digest, t) ==
    LET hits == {u \in DOMAIN us : us[u].resetPasswordToken = digest}
    IN  IF hits = {} THEN NoUser ELSE CHOOSE u \in hits : TRUE

\* prisma.user.findFirst by reset-token digest with an expiry in the future.
FindByResetToken(us, digest, t) ==
    LET hits == {u \in DOMAIN us : /\ us[u].resetPasswordToken = digest
                                   /\ us[u].resetPasswordExpires # NullTime
                                   /\ us[u].resetPasswordExpires > t}
    IN  IF hits = {} THEN NoUser ELSE CHOOSE u \in hits : TRUE

\* POST /api/auth/reset-password.  A failing deleteMany is logged and the
\* handler goes on.
ResetPasswordOutcome(r, deleteFails) ==
    LET uid == FindByResetToken(users, Hash(r.token), now)
        same == [users |-> users, tds |-> trustedDevices, resp |-> Idle,
                 failed |-> {}]
    IN
    IF r.token = NoToken \/ r.password = ""
    THEN [same EXCEPT !.resp = Answer(400, "MISSING_DATA", NoUser)]
    ELSE IF ~ValidatePassword(r.password)
    THEN [same EXCEPT !.resp = Answer(400, "INVALID_PASSWORD", NoUser)]
    ELSE IF uid = NoUser
    THEN [same EXCEPT !.resp = Answer(400, "INVALID_TOKEN", NoUser)]
    ELSE [same EXCEPT
            !.users = [users EXCEPT ![uid].password = r.password,
                                    ![uid].resetPasswordToken = NoToken,
                                    ![uid].resetPasswordExpires = NullTime],
            !.tds = IF deleteFails THEN trustedDevices
                    ELSE DeleteTrustedDevices(trustedDevices, uid),
            !.failed = IF deleteFails THEN {"devices"} ELSE {},
            !.resp = Answer(200, "OK", uid)]

\* POST /api/auth/change-password behind authenticateUser.  password.ts calls
\* comparePassword without importing it: bound tells whether the build resolved
\* the name to security.ts's function or the call throws a ReferenceError.
ChangePasswordOutcome(r, bound, deleteFails) ==
    LET auth == AuthenticateUserOutcome(r.token)
        uid == auth.user
        same == [users |-> users, tds |-> trustedDevices, resp |-> Idle,
                 failed |-> {}]
    IN
    IF ~auth.next
    THEN [same EXCEPT !.resp = Answer(auth.status, auth.code, NoUser)]
    ELSE IF r.currentPassword = "" \/ r.newPassword = ""
    THEN [same EXCEPT !.resp = Answer(400, "MISSING_DATA", uid)]
    ELSE IF users[uid].provider # "local"
    THEN [same EXCEPT !.resp = Answer(400, "OAUTH_ACCOUNT", uid)]
    ELSE IF users[uid].password = ""
    THEN [same EXCEPT !.resp = Answer(400, "NO_PASSWORD", uid)]
    ELSE IF ~bound
    THEN [same EXCEPT !.resp = Answer(500, "ERROR", uid)]
    ELSE IF ~ComparePassword(r.currentPassword, users[uid].password)
    THEN [same EXCEPT !.resp = Answer(400, "INCORRECT_PASSWORD", uid)]
    ELSE IF ~ValidatePassword(r.newPassword)
    THEN [same EXCEPT !.resp = Answer(400, "INVALID_PASSWORD", uid)]
    ELSE [same EXCEPT
            !.users = [users EXCEPT ![uid].password = r.newPassword],
            !.tds = IF deleteFails THEN trustedDevices
                    ELSE DeleteTrustedDevices(trustedDevices, uid),
            !.failed = IF deleteFails THEN {"devices"} ELSE {},
            !.resp = Answer(200, "OK", uid)]

DeleteOutcomes == IF "devices" \in faults THEN BOOLEAN ELSE {FALSE}
NewPasswords == {"new", "weak"}
Sessions == {tok \in Bearers : tok.k # "temp"}

\* A password or 2FA handler has run with outcome out.
\* A handler of this section has run with outcome out; h is the record kept
\* of the tokens drawn and redeemed.
SettleWith(r, out, h) ==
    /\ users' = out.users
    /\ trustedDevices' = out.tds
    /\ resp' = out.resp
    /\ req' = r
    /\ failed' = out.failed
    /\ history' = h
    /\ UNCHANGED <<now, loginAttempts, issued, faults, limits, ticks, callers, steps,
                   inflight>>

Settle(r, out) == SettleWith(r, out, history)

ToggleTwoFactor ==
    \E tok \in Sessions, enable \in BOOLEAN, deleteFails \in DeleteOutcomes :
        LET r == [op |-> "toggleTwoFactor", token |-> tok, enable |-> enable]
        IN  Settle(r, ToggleTwoFactorOutcome(r, deleteFails))

ForgotPassword ==
    \E email \in EmailIdentifiers, raw \in ResetDraws, mailOk \in MailOutcomes :
        LET r == [op |-> "forgotPassword", email |-> email]
            out == ForgotPasswordOutcome(r, raw, mailOk)
            drew == out.resp.code \in {"SENT", "EMAIL_SEND_FAILED"}
        IN  /\ drew => raw # NoToken
            /\ SettleWith(r, out,
                          IF drew
                          THEN [history EXCEPT
                                  !.drawn = @ \cup {raw},
                                  !.forgotAt = IF out.resp.code = "SENT"
                                               THEN now ELSE @]
                          ELSE history)

ResetPassword ==
    \E token \in ResetTokensInUse, pw \in NewPasswords,
       deleteFails \in DeleteOutcomes :
        LET r == [op |-> "resetPassword", token |-> token, password |-> pw]
            out == ResetPasswordOutcome(r, deleteFails)
        IN  SettleWith(r, out,
                       IF out.resp.code = "OK"
                       THEN [history EXCEPT !.redeemed = @ \cup {token}]
                       ELSE history)

ChangePassword ==
    \E tok \in Sessions, cur \in {"good", "bad"}, pw \in NewPasswords,
       bound \in BOOLEAN, deleteFails \in DeleteOutcomes :
        LET r == [op |-> "changePassword", token |-> tok,
                  currentPassword |-> cur, newPassword |-> pw]
        IN  Settle(r, ChangePasswordOutcome(r, bound, deleteFails))

DeviceScenarios ==
    { Scenario(LocalTwoFactor, {LoginRequest(ClientA, "good")}, MaxTicksWide) }

InitDevices ==
    /\ faults = {"devices"}
    /\ steps = {REGENERATE_INTERVAL}
    /\ \E sc \in DeviceScenarios : InitStore(sc)

NextDevices ==
    \/ \E r \in callers : Login(r)
    \/ VerifyOTP
    \/ ToggleTwoFactor
    \/ ForgotPassword
    \/ ResetPassword
    \/ ChangePassword

SpecDevices == InitDevices /\ [][NextDevices]_vars

\* The step is a request that disables 2FA, resets or changes the password,
\* and reports success.
IsInvalidation ==
    /\ req'.op \in {"toggleTwoFactor", "resetPassword", "changePassword"}
    /\ req'.op = "toggleTwoFactor" => ~req'.enable
    /\ resp'.status = 200

\* C16: after a request that disables 2FA, changes or resets the password has
\* reported success, the user has no TrustedDevice row.
C16_TrustIsInvalidated ==
    [][ IsInvalidation
          => \A d \in trustedDevices' : d.uid # resp'.user ]_vars

----------------------------------------------------------------------------
(* The life of an account (SpecAccount): register, login, verifyEmailWithOTP,
   resendEmailVerification, forgotPassword, resetPassword, toggleTwoFactor, the
   Google callback and the cleanup sweep, from an empty users table. *)

DAY == 24 * 60
DaysBeforeWarning == 3
DaysBeforeDeletion == 7

\* CONFIG.ACCOUNT_CLEANUP.WARNING_EMAIL_MAX_COUNT and WARNING_EMAIL_INTERVAL:
\* the sweep reads them, the configuration object at hand does not define them.
WARNING_EMAIL_MAX_COUNT == 2
WARNING_EMAIL_INTERVAL == DAY

NoAccounts == [u \in {} |-> LocalUnverified]

\* prisma.user.create: the table with one more row.
WithUser(us, uid, row) ==
    [u \in DOMAIN us \cup {uid} |-> IF u = uid THEN row ELSE us[u]]

\* uuid(): an id no row holds.
FreshUserId == CHOOSE u \in UserIds : u \notin DOMAIN users

Reply(status, code, uid, token, mailed) ==
    [status |-> status, code |-> code, user |-> uid, token |-> token,
     mailed |-> mailed]

\* POST /api/auth/register.
RegisterOutcome(r) ==
    LET same == [users |-> users, resp |-> Idle]
        taken(id) == FindUser(users, id) # NoUser
    IN
    IF ~ValidatePassword(r.password)
    THEN [same EXCEPT !.resp = Reply(400, "INVALID_PASSWORD", NoUser, NoToken, {})]
    ELSE IF taken(r.username)
    THEN [same EXCEPT !.resp = Reply(400, "USERNAME_EXISTS", NoUser, NoToken, {})]
    ELSE IF taken(r.email)
    THEN [same EXCEPT !.resp = Reply(400, "EMAIL_EXISTS", NoUser, NoToken, {})]
    ELSE LET uid == FreshUserId
         IN  [same EXCEPT
                !.users = WithUser(users, uid,
                            [UserRow(r.password, FALSE, FALSE)
                                EXCEPT !.createdAt = now]),
                !.resp = Reply(201, "REGISTERED", uid,
                               GenerateToken(uid, FALSE, now), {})]

\* prisma.user.findFirst of verifyEmailWithOTP: by link-token digest when a
\* token is presented, by the code otherwise; the expiry is in the future.
FindForVerification_IgnoresExpiry(us, otp, token, t) ==
    LET hits == {u \in DOMAIN us :
                    /\ IF token # NoToken
                       THEN us[u].emailVerifyToken = Hash(token)
                       ELSE us[u].twoFactorOTP = otp
                    /\ us[u].emailVerifyExpires # NullTime}
    IN  IF hits = {} THEN NoUser ELSE CHOOSE u \in hits : TRUE

FindForVerification(us, otp, token, t) ==
    LET hits == {u \in DOMAIN us :
                    /\ IF token # NoToken
                       THEN us[u].emailVerifyToken = Hash(token)
                       ELSE us[u].twoFactorOTP = otp
                    /\ us[u].emailVerifyExpires # NullTime
                    /\ us[u].emailVerifyExpires > t}
    IN  IF hits = {} THEN NoUser ELSE CHOOSE u \in hits : TRUE

VerifyEmailWithOTPOutcome_KeepsToken(r) ==
    LET uid == FindForVerification(users, r.otp, r.token, now)
        same == [users |-> users, rows |-> loginAttempts, resp |-> Idle]
    IN
    IF r.otp = NoOTP
    THEN [same EXCEPT !.resp = Reply(400, "MISSING_OTP", NoUser, NoToken, {})]
    ELSE IF uid = NoUser
    THEN [same EXCEPT !.resp = Reply(400, "INVALID_OTP", NoUser, NoToken, {})]
    ELSE IF r.token # NoToken /\ users[uid].twoFactorOTP # r.otp
    THEN [same EXCEPT !.resp = Reply(400, "WRONG_OTP", uid, NoToken, {})]
    ELSE [same EXCEPT
            !.users = [users EXCEPT ![uid].isEmailVerified = TRUE],
            !.rows = ResetFailedLoginAttempts(loginAttempts, r.ip, EmailOf(uid),
                                              r.ua, uid, now, "none"),
            !.resp = Reply(200, "VERIFIED", uid, GenerateToken(uid, FALSE, now),
                           {})]

\* POST verifyEmailWithOTP (the revision that also resets the login guard).
\* The success row is written for the account's email, the caller's address
\* and the caller's user-agent header in the place of a device id.
VerifyEmailWithOTPOutcome(r) ==
    LET uid == FindForVerification(users, r.otp, r.token, now)
        same == [users |-> users, rows |-> loginAttempts, resp |-> Idle]
    IN
    IF r.otp = NoOTP
    THEN [same EXCEPT !.resp = Reply(400, "MISSING_OTP", NoUser, NoToken, {})]
    ELSE IF uid = NoUser
    THEN [same EXCEPT !.resp = Reply(400, "INVALID_OTP", NoUser, NoToken, {})]
    ELSE IF r.token # NoToken /\ users[uid].twoFactorOTP # r.otp
    THEN [same EXCEPT !.resp = Reply(400, "WRONG_OTP", uid, NoToken, {})]
    ELSE [same EXCEPT
            !.users = [users EXCEPT ![uid].isEmailVerified = TRUE,
                                    ![uid].emailVerifyToken = NoToken,
                                    ![uid].emailVerifyExpires = NullTime,
                                    ![uid].twoFactorOTP = NoOTP],
            !.rows = ResetFailedLoginAttempts(loginAttempts, r.ip, EmailOf(uid),
                                              r.ua, uid, now, "none"),
            !.resp = Reply(200, "VERIFIED", uid, GenerateToken(uid, FALSE, now),
                           {})]

ResendEmailVerificationOutcome_ServesVerified(r, otp, raw, mailOk) ==
    LET uid == FindUser(users, r.email)
        same == [users |-> users, resp |-> Idle]
    IN
    IF r.email = ""
    THEN [same EXCEPT !.resp = Reply(400, "MISSING_EMAIL", NoUser, NoToken, {})]
    ELSE IF uid = NoUser
    THEN [same EXCEPT !.resp = Reply(200, "SENT_IF_EXISTS", NoUser, NoToken, {})]
    ELSE [same EXCEPT
            !.users = CreateEmailVerification(users, uid, otp, raw, now),
            !.resp = IF mailOk
                     THEN Reply(200, "SENT", uid, NoToken,
                                {[otp |-> otp, token |-> raw]})
                     ELSE Reply(500, "EMAIL_SEND_FAILED", uid, NoToken, {})]

\* POST resendEmailVerification.  otp and raw are createEmailVerification's
\* draws, mailOk what sendEmailVerification returns.
ResendEmailVerificationOutcome(r, otp, raw, mailOk) ==
    LET uid == FindUser(users, r.email)
        same == [users |-> users, resp |-> Idle]
    IN
    IF r.email = ""
    THEN [same EXCEPT !.resp = Reply(400, "MISSING_EMAIL", NoUser, NoToken, {})]
    ELSE IF uid = NoUser
    THEN [same EXCEPT !.resp = Reply(200, "SENT_IF_EXISTS", NoUser, NoToken, {})]
    ELSE IF users[uid].isEmailVerified
    THEN [same EXCEPT !.resp = Reply(400, "ALREADY_VERIFIED", uid, NoToken, {})]
    ELSE [same EXCEPT
            !.users = CreateEmailVerification(users, uid, otp, raw, now),
            !.resp = IF mailOk
                     THEN Reply(200, "SENT", uid, NoToken,
                                {[otp |-> otp, token |-> raw]})
                     ELSE Reply(500, "EMAIL_SEND_FAILED", uid, NoToken, {})]

LinkGoogle_ResetsVerification(us, uid, providerId) ==
    [us EXCEPT ![uid].providerId = providerId,
               ![uid].isEmailVerified = FALSE]

\* The update that moves an existing Google account to the profile's id.
LinkGoogle(us, uid, providerId) ==
    [us EXCEPT ![uid].providerId = providerId]

GoogleLoginOutcome_LinksLocal(r) ==
    LET known == {u \in DOMAIN users : /\ users[u].provider = "google"
                                       /\ users[u].providerId = r.providerId}
        existing == FindUser(users, r.email)
        same == [users |-> users, resp |-> Idle]
    IN
    IF known # {}
    THEN LET uid == CHOOSE u \in known : TRUE
         IN  [same EXCEPT !.resp = Reply(302, "TOKEN", uid,
                                        GenerateToken(uid, TRUE, now), {})]
    ELSE IF r.email = ""
    THEN [same EXCEPT !.resp = Reply(302, "GOOGLE_FAILED", NoUser, NoToken, {})]
    ELSE IF existing # NoUser
    THEN [same EXCEPT
            !.users = [users EXCEPT ![existing].provider = "google",
                                    ![existing].providerId = r.providerId],
            !.resp = Reply(302, "TOKEN", existing,
                           GenerateToken(existing, TRUE, now), {})]
    ELSE LET uid == FreshUserId
         IN  [same EXCEPT
                !.users = WithUser(users, uid,
                            [UserRow("", FALSE, FALSE)
                                EXCEPT !.createdAt = now,
                                       !.providerId = r.providerId]),
                !.resp = Reply(302, "TOKEN", uid,
                               GenerateToken(uid, TRUE, now), {})]

\* GET /api/auth/google/callback: the strategy's verify function, then the
\* route's redirect. An email that belongs to a local account is refused
\* with EMAIL_EXISTS_AS_LOCAL and nothing is written; an email that belongs
\* to a Google account under another id moves that account to the new id.
GoogleLoginOutcome(r) ==
    LET known == {u \in DOMAIN users : /\ users[u].provider = "google"
                                       /\ users[u].providerId = r.providerId}
        existing == FindUser(users, r.email)
        same == [users |-> users, resp |-> Idle]
    IN
    IF known # {}
    THEN LET uid == CHOOSE u \in known : TRUE
         IN  [same EXCEPT !.resp = Reply(302, "TOKEN", uid,
                                        GenerateToken(uid, TRUE, now), {})]
    ELSE IF r.email = ""
    THEN [same EXCEPT !.resp = Reply(302, "GOOGLE_FAILED", NoUser, NoToken, {})]
    ELSE IF existing # NoUser /\ users[existing].provider = "local"
    THEN [same EXCEPT !.resp = Reply(302, "EMAIL_EXISTS_AS_LOCAL", NoUser,
                                    NoToken, {})]
    ELSE IF existing # NoUser
    THEN [same EXCEPT
            !.users = LinkGoogle(users, existing, r.providerId),
            !.resp = Reply(302, "TOKEN", existing,
                           GenerateToken(existing, TRUE, now), {})]
    ELSE LET uid == FreshUserId
         IN  [same EXCEPT
                !.users = WithUser(users, uid,
                            [UserRow("", FALSE, FALSE)
                                EXCEPT !.createdAt = now,
                                       !.providerId = r.providerId]),
                !.resp = Reply(302, "TOKEN", uid,
                               GenerateToken(uid, TRUE, now), {})]

\* The accounts the sweep deletes: unverified and older than the threshold.
Stale_IgnoresVerification(us, t, days) ==
    {u \in DOMAIN us : us[u].createdAt < t - days * DAY}

Stale(us, t, days) ==
    {u \in DOMAIN us : ~us[u].isEmailVerified /\ us[u].createdAt < t - days * DAY}

RECURSIVE Orphaned(_, _)
\* login_attempts after users are deleted: userId is set to null.
Orphaned(rows, gone) ==
    IF BagToSet(rows) = {} THEN EmptyBag
    ELSE LET x == CHOOSE y \in BagToSet(rows) : TRUE
             n == CopiesIn(x, rows)
             rest == Orphaned([y \in BagToSet(rows) \ {x} |-> rows[y]], gone)
             x2 == IF x.uid \in gone THEN [x EXCEPT !.uid = NoUser] ELSE x
         IN  rest (+) [y \in {x2} |-> n]

\* A handler of this section has run with outcome out.
Conclude(r, out) ==
    /\ users' = out.users
    /\ resp' = out.resp
    /\ req' = r
    /\ failed' = {}
    /\ UNCHANGED <<now, loginAttempts, trustedDevices, issued, faults, limits, ticks,
                   callers, steps, inflight, history>>

Register ==
    /\ UserIds \ DOMAIN users # {}
    /\ \E pw \in {"good", "weak"} :
          LET r == [op |-> "register", username |-> "alice",
                    email |-> "alice@x.com", password |-> pw]
          IN  Conclude(r, RegisterOutcome(r))

VerifyEmailWithOTP ==
    \E otp \in Otps, token \in RawTokens \cup {NoToken} :
        LET r == [op |-> "verifyEmailWithOTP", otp |-> otp, token |-> token,
                  ip |-> VerifyClient.ip, ua |-> VerifyClient.ua]
            out == VerifyEmailWithOTPOutcome(r)
        IN  /\ users' = out.users
            /\ loginAttempts' = out.rows
            /\ resp' = out.resp
            /\ req' = r
            /\ failed' = {}
            /\ history' = IF out.resp.code = "VERIFIED"
                          THEN [history EXCEPT !.verified =
                                    @ \cup {[uid |-> out.resp.user, at |-> now,
                                              token |-> token]}]
                          ELSE history
            /\ UNCHANGED <<now, trustedDevices, issued, faults, limits, ticks,
                           callers, steps, inflight>>

ResendEmailVerification ==
    \E email \in {EmailOf(u) : u \in DOMAIN users \cup UserIds} :
    \E otp \in Otps, raw \in RawDraws(FindUser(users, email)),
       mailOk \in MailOutcomes :
        LET r == [op |-> "resendEmailVerification", email |-> email]
        IN  Conclude(r, ResendEmailVerificationOutcome(r, otp, raw, mailOk))

\* The profile ids Google reports for the one mailbox of the model.
GoogleIds == {"g1", "g2"}

GoogleLogin ==
    /\ UserIds \ DOMAIN users # {}
          \/ FindUser(users, "alice@x.com") # NoUser
    /\ \E providerId \in GoogleIds :
         LET r == [op |-> "googleLogin", providerId |-> providerId,
                   email |-> "alice@x.com"]
         IN  Conclude(r, GoogleLoginOutcome(r))

\* cleanupUnverifiedAccounts(_, DaysBeforeDeletion, false).
\* prisma.user.findMany of the warning pass.
AccountsToWarn_AnyCount(us, t, daysBeforeWarning, daysBeforeDeletion) ==
    {u \in DOMAIN us :
        /\ ~us[u].isEmailVerified
        /\ us[u].createdAt <= t - daysBeforeWarning * DAY
        /\ us[u].createdAt > t - daysBeforeDeletion * DAY
        /\ \/ us[u].lastWarningEmailSentAt = NullTime
           \/ us[u].lastWarningEmailSentAt < t - WARNING_EMAIL_INTERVAL}

AccountsToWarn(us, t, daysBeforeWarning, daysBeforeDeletion) ==
    {u \in DOMAIN us :
        /\ ~us[u].isEmailVerified
        /\ us[u].createdAt <= t - daysBeforeWarning * DAY
        /\ us[u].createdAt > t - daysBeforeDeletion * DAY
        /\ us[u].warningEmailCount < WARNING_EMAIL_MAX_COUNT
        /\ \/ us[u].lastWarningEmailSentAt = NullTime
           \/ us[u].lastWarningEmailSentAt < t - WARNING_EMAIL_INTERVAL}

\* The update after each warning that was sent.
Warned_CountOnly(us, sent, t) ==
    [u \in DOMAIN us |->
        IF u \in sent
        THEN [us[u] EXCEPT !.warningEmailCount = @ + 1]
        ELSE us[u]]

Warned(us, sent, t) ==
    [u \in DOMAIN us |->
        IF u \in sent
        THEN [us[u] EXCEPT !.lastWarningEmailSentAt = t,
                           !.warningEmailCount = @ + 1]
        ELSE us[u]]

\* cleanupUnverifiedAccounts(daysBeforeWarning, daysBeforeDeletion,
\* sendWarningEmails): the warning pass, then the deletion.  sent are the
\* accounts whose warning sendAccountDeletionWarningEmail delivered.
Sweep(daysBeforeWarning, daysBeforeDeletion, sendWarningEmails) ==
    LET toWarn == IF sendWarningEmails
                  THEN AccountsToWarn(users, now, daysBeforeWarning,
                                      daysBeforeDeletion)
                  ELSE {}
    IN
    \E sent \in (IF "mail" \in faults THEN SUBSET toWarn ELSE {toWarn}) :
        LET warned == Warned(users, sent, now)
            gone == Stale(warned, now, daysBeforeDeletion)
        IN  /\ users' = [u \in DOMAIN warned \ gone |-> warned[u]]
            /\ trustedDevices' = {d \in trustedDevices : d.uid \notin gone}
            /\ loginAttempts' = Orphaned(loginAttempts, gone)
            /\ req' = [op |-> "cleanup", sendWarningEmails |-> sendWarningEmails]
            /\ resp' = [status |-> 0, code |-> "DONE", user |-> NoUser,
                        token |-> NoToken, mailed |-> {}, deleted |-> gone,
                        warned |-> sent]
            /\ failed' = {}
            /\ history' = [history EXCEPT !.warned =
                              @ \cup {[uid |-> u, at |-> now] : u \in sent}]
            /\ UNCHANGED <<now, issued, faults, limits, ticks, callers, steps,
                           inflight>>

\* The sweep called with sendWarningEmails = false.
CleanupUnverifiedAccounts ==
    \E sendWarningEmails \in {FALSE} :
        Sweep(DaysBeforeWarning, DaysBeforeDeletion, sendWarningEmails)

\* The sweep as the scheduled job calls it.
CleanupWithWarnings ==
    \E sendWarningEmails \in {TRUE} :
        Sweep(DaysBeforeWarning, DaysBeforeDeletion, sendWarningEmails)

AccountScenarios ==
    { [users |-> NoAccounts, callers |-> {LoginRequest(ClientA, "good")},
       ticks |-> MaxTicksWide,
       limits |-> [rows |-> MaxRowsNarrow, issued |-> MaxIssuedNarrow, resets |-> 1]] }

InitAccount ==
    /\ faults = {}
    /\ steps = {OTP_EXPIRY, DaysBeforeDeletion * DAY + 1}
    /\ \E sc \in AccountScenarios : InitStore(sc)

NextAccount ==
    \/ Register
    \/ \E r \in callers : Login(r)
    \/ VerifyEmailWithOTP
    \/ ResendEmailVerification
    \/ ForgotPassword
    \/ ResetPassword
    \/ ToggleTwoFactor
    \/ GoogleLogin
    \/ CleanupUnverifiedAccounts
    \/ Tick

SpecAccount == InitAccount /\ [][NextAccount]_vars

\* C18: VERIFIED is terminal: under every operation a user's isEmailVerified
\* never changes from true back to false.
C18_VerifiedIsTerminal ==
    [][ \A u \in DOMAIN users \cap DOMAIN users' :
            users[u].isEmailVerified => users'[u].isEmailVerified ]_vars

\* A Google login under a second profile id has been answered for a Google
\* account that verifyEmailWithOTP had verified, and the account is still
\* verified.
C18_Witness ==
    /\ req.op = "googleLogin" /\ resp.code = "TOKEN"
    /\ req.providerId = "g2"
    /\ resp.user \in DOMAIN users
    /\ users[resp.user].isEmailVerified
    /\ users[resp.user].provider = "google"
    /\ users[resp.user].providerId = "g2"

\* C19: no session token is issued for a user whose isEmailVerified is false;
\* register and login withhold it until verifyEmailWithOTP has succeeded.
C19_NoSessionBeforeVerification ==
    [][ (req'.op \notin {"none", "cleanup"} /\ resp'.token.k = "session")
          => /\ resp'.token.id \in DOMAIN users'
             /\ users'[resp'.token.id].isEmailVerified ]_vars

\* C20: a successful register creates the user unverified and, in the same
\* request, stores a verification code with the digest and expiry of a link
\* token, and mails the code and the raw token.
C20_RegisterIssuesVerification ==
    [][ (req'.op = "register" /\ resp'.status = 201)
          => LET u == users'[resp'.user]
             IN  /\ resp'.user \notin DOMAIN users
                 /\ ~u.isEmailVerified
                 /\ u.twoFactorOTP # NoOTP
                 /\ u.emailVerifyToken # NoToken
                 /\ u.emailVerifyExpires > now
                 /\ \E m \in resp'.mailed :
                       /\ m.otp = u.twoFactorOTP
                       /\ Hash(m.token) = u.emailVerifyToken ]_vars

-----------------------------------------------------------------------------
(* Email verification with two unverified accounts side by side. *)

VerifyScenarios ==
    { [users |-> [u \in UserIds \cup OtherUserIds |-> LocalUnverified],
       callers |-> {LoginRequest(ClientA, "good")},
       ticks |-> MaxTicks,
       limits |-> [rows |-> MaxRowsNarrow, issued |-> MaxIssuedNarrow, resets |-> 1]] }

InitVerify ==
    /\ faults = {}
    /\ steps = {REGENERATE_INTERVAL, OTP_EXPIRY}
    /\ \E sc \in VerifyScenarios : InitStore(sc)

NextVerify ==
    \/ ResendEmailVerification
    \/ VerifyEmailWithOTP
    \/ Tick

SpecVerify == InitVerify /\ [][NextVerify]_vars

IsEmailVerifyStep == req' # Idle /\ req'.op = "verifyEmailWithOTP"

\* The request r meets, for account u of the table us at time t, one of the two
\* conditions under which an email address may be marked verified.
VerifiableBy(us, u, r, t) ==
    /\ us[u].emailVerifyExpires # NullTime
    /\ us[u].emailVerifyExpires > t
    /\ us[u].twoFactorOTP = r.otp
    /\ r.token # NoToken => us[u].emailVerifyToken = Hash(r.token)

\* C21: verifyEmailWithOTP marks a user verified only if the presented OTP is
\* that user's stored OTP, the user's emailVerifyExpires is in the future and,
\* when a link token is presented, its digest is that user's emailVerifyToken;
\* in every other case no row of any table changes and no token is issued.
C21_VerifiedOnlyOnMatch ==
    [][IsEmailVerifyStep =>
        IF resp'.code = "VERIFIED"
        THEN /\ resp'.user \in DOMAIN users
             /\ VerifiableBy(users, resp'.user, req', now)
             /\ users'[resp'.user].isEmailVerified
             /\ \A u \in DOMAIN users \ {resp'.user} : users'[u] = users[u]
        ELSE /\ users' = users
             /\ loginAttempts' = loginAttempts
             /\ resp'.token = NoToken]_vars

\* Both accounts hold a pending code, and a link token co-presented with its
\* account's code has verified one of them.
C21_Witness ==
    /\ req # Idle /\ req.op = "verifyEmailWithOTP"
    /\ req.token # NoToken
    /\ resp.code = "VERIFIED"
    /\ \E u \in DOMAIN users : u # resp.user /\ users[u].twoFactorOTP # NoOTP

\* The link tokens that a verification has redeemed so far.
Redeemed == {h.token : h \in history.verified} \ {NoToken}

\* C22: a link token that has verified an account is redeemed only once: a
\* later verifyEmailWithOTP presenting it, with any OTP, fails because no row
\* holds its digest any more, changes no row and returns no session token.
C22_TokenRedeemedOnce ==
    [][(IsEmailVerifyStep /\ req'.token \in Redeemed) =>
        /\ resp'.status = 400
        /\ resp'.code = "INVALID_OTP"
        /\ resp'.token = NoToken
        /\ users' = users
        /\ loginAttempts' = loginAttempts]_vars

\* A token that verified an account has been presented again and refused.
C22_Witness ==
    /\ req # Idle /\ req.op = "verifyEmailWithOTP"
    /\ req.token \in Redeemed
    /\ resp.code = "INVALID_OTP"
    /\ \E h \in history.verified :
          h.token = req.token /\ users[h.uid].isEmailVerified

-----------------------------------------------------------------------------
(* Login failures of an unverified account, then its verification. *)

MaxRowsReset == 3

ResetScenarios ==
    { [users |-> [u \in UserIds |-> LocalUnverified],
       callers |-> {LoginRequest(ClientA, "bad"), LoginRequest(ClientE, "bad")},
       ticks |-> MaxTicks,
       limits |-> [rows |-> MaxRowsReset, issued |-> MaxIssuedNarrow, resets |-> 1]] }

InitReset ==
    /\ faults = {}
    /\ steps = {REGENERATE_INTERVAL}
    /\ \E sc \in ResetScenarios : InitStore(sc)

NextReset ==
    \/ \E r \in callers : Login(r)
    \/ ResendEmailVerification
    \/ VerifyEmailWithOTP
    \/ Tick

SpecReset == InitReset /\ [][NextReset]_vars

\* The failures that checkBruteForceProtection counts for the login r at time t.
CountedFailures(rows, r, t) ==
    LET start == StartCountFrom(rows, r.ip, r.id, r.dev, t)
    IN  IF FailedAfter(rows, r.ip, r.id, r.dev, t) = {} THEN {}
        ELSE {x \in BagToSet(rows) :
                 ~x.ok /\ Matches(x, r.ip, r.id, r.dev) /\ x.at >= start}

\* C23: once verifyEmailWithOTP has verified an account, the guard of a later
\* login to that account counts none of the failures recorded for the account
\* before the verification.
C23_VerificationResetsGuard ==
    [][(req' # Idle /\ req'.op = "login") =>
        \A h \in history.verified :
            FindUser(users, req'.id) = h.uid =>
                \A x \in CountedFailures(loginAttempts, req', now) :
                    x.id \in {EmailOf(h.uid), UsernameOf(h.uid)} => x.at >= h.at]_vars

-----------------------------------------------------------------------------
(* The sweep of unverified accounts over several days. *)

MaxTicksSweep == 5

\* Two accounts, one registered four days before the other; the older one
\* is unverified or has verified its address.
SweepScenarios ==
    { [users |-> [u \in UserIds \cup OtherUserIds |->
                    IF u \in UserIds
                    THEN [older EXCEPT !.createdAt = 0 - 4 * DAY]
                    ELSE LocalUnverified],
       callers |-> {LoginRequest(ClientA, "good")},
       ticks |-> MaxTicksSweep,
       limits |-> [rows |-> MaxRowsNarrow, issued |-> MaxIssuedNarrow, resets |-> 1]] :
      older \in {LocalUnverified, LocalVerified} }

InitSweep ==
    /\ faults = {}
    /\ steps = {DAY \div 2, DAY + DAY \div 2, DaysBeforeWarning * DAY}
    /\ \E sc \in SweepScenarios : InitStore(sc)

NextSweep ==
    \/ CleanupWithWarnings
    \/ CleanupUnverifiedAccounts
    \/ Tick

SpecSweep == InitSweep /\ [][NextSweep]_vars

IsSweepStep == req' # Idle /\ req'.op = "cleanup"

\* C24: cleanupUnverifiedAccounts(3, 7, true) removes every unverified account
\* older than the deletion threshold, and a second run right after the first
\* deletes nothing again and warns no account the first run has warned.
C24_SweepIsIdempotent ==
    [][(IsSweepStep /\ req'.sendWarningEmails) =>
        /\ resp'.deleted = Stale(users, now, DaysBeforeDeletion)
        /\ DOMAIN users' = DOMAIN users \ resp'.deleted
        /\ (req # Idle /\ req.op = "cleanup" /\ req.sendWarningEmails) =>
              /\ resp'.deleted = {}
              /\ resp'.warned \cap resp.warned = {}
              /\ users' = users]_vars

\* A second run in succession, after a first one that warned an account while
\* an older account had been deleted.
C24_Witness ==
    /\ req # Idle /\ req.op = "cleanup" /\ req.sendWarningEmails
    /\ resp.warned = {} /\ resp.deleted = {}
    /\ \E h \in history.warned : h.at = now /\ h.uid \in DOMAIN users
    /\ DOMAIN users # UserIds \cup OtherUserIds

\* The warnings sent to account u so far.
WarningsTo(h, u) == {w \in h.warned : w.uid = u}

\* C25: a sweep warns an account only while it is unverified and its age lies
\* between the warning and the deletion threshold; no account is warned more
\* than WARNING_EMAIL_MAX_COUNT times in total, nor again before
\* WARNING_EMAIL_INTERVAL has passed since its previous warning.
C25_WarningsAreBounded ==
    [][IsSweepStep =>
        \A u \in resp'.warned :
            /\ u \in DOMAIN users
            /\ ~users[u].isEmailVerified
            /\ now - users[u].createdAt >= DaysBeforeWarning * DAY
            /\ now - users[u].createdAt < DaysBeforeDeletion * DAY
            /\ Cardinality(WarningsTo(history', u)) <= WARNING_EMAIL_MAX_COUNT
            /\ \A w \in WarningsTo(history, u) :
                  now - w.at >= WARNING_EMAIL_INTERVAL]_vars

\* An account has received its last permitted warning and a later sweep, with
\* the account still unverified and inside the window, has left it alone.
C25_Witness ==
    /\ req # Idle /\ req.op = "cleanup" /\ req.sendWarningEmails
    /\ \E u \in DOMAIN users :
          /\ Cardinality(WarningsTo(history, u)) = WARNING_EMAIL_MAX_COUNT
          /\ u \notin resp.warned
          /\ ~users[u].isEmailVerified
          /\ now - users[u].createdAt >= DaysBeforeWarning * DAY
          /\ now - users[u].createdAt < DaysBeforeDeletion * DAY
          /\ now - users[u].lastWarningEmailSentAt > WARNING_EMAIL_INTERVAL

-----------------------------------------------------------------------------
(* The sweep and verifyEmailWithOTP, one store call at a time. *)

Verifier == "p1"
Sweeper == "p2"

\* An unverified account one minute short of the deletion threshold.
RaceScenarios ==
    { [users |-> [u \in UserIds |->
                    [LocalUnverified EXCEPT
                        !.createdAt = 1 - DaysBeforeDeletion * DAY]],
       callers |-> {LoginRequest(ClientA, "good")},
       ticks |-> MaxTicks,
       limits |-> [rows |-> MaxRowsNarrow, issued |-> MaxIssuedNarrow, resets |-> 1]] }

InitRace ==
    /\ faults = {}
    /\ steps = {REGENERATE_INTERVAL}
    /\ \E sc \in RaceScenarios : InitStore(sc)

UnchangedSetting == UNCHANGED <<now, faults, limits, ticks, callers, steps>>

\* verifyEmailWithOTP up to its findFirst and the checks on the row found.
VerifyFindStep ==
    /\ At(Verifier, "idle")
    /\ \E otp \in Otps, token \in RawTokens \cup {NoToken} :
         LET r == [op |-> "verifyEmailWithOTP", otp |-> otp, token |-> token,
                   ip |-> VerifyClient.ip, ua |-> VerifyClient.ua]
             out == VerifyEmailWithOTPOutcome(r)
         IN  IF out.resp.code = "VERIFIED"
             THEN /\ Goto(Verifier, [IdleProc EXCEPT !.pc = "update", !.r = r,
                                         !.out = [user |-> out.resp.user]])
                  /\ UNCHANGED <<req, resp>>
             ELSE /\ req' = r
                  /\ resp' = out.resp
                  /\ UNCHANGED inflight
    /\ failed' = {}
    /\ UnchangedStore
    /\ UnchangedSetting
    /\ UNCHANGED history

\* prisma.user.update by id: it throws when the row is gone.
VerifyUpdateStep ==
    /\ At(Verifier, "update")
    /\ LET uid == Local(Verifier).out.user
       IN  IF uid \in DOMAIN users
           THEN /\ users' = [users EXCEPT ![uid].isEmailVerified = TRUE,
                                          ![uid].emailVerifyToken = NoToken,
                                          ![uid].emailVerifyExpires = NullTime,
                                          ![uid].twoFactorOTP = NoOTP]
                /\ Goto(Verifier, [Local(Verifier) EXCEPT !.pc = "reset"])
                /\ UNCHANGED <<req, resp>>
           ELSE /\ req' = Local(Verifier).r
                /\ resp' = Reply(500, "SERVER_ERROR", NoUser, NoToken, {})
                /\ Goto(Verifier, IdleProc)
                /\ UNCHANGED users
    /\ failed' = {}
    /\ UNCHANGED <<loginAttempts, trustedDevices, issued, history>>
    /\ UnchangedSetting

\* resetFailedLoginAttempts for the verified account.
VerifyResetStep ==
    /\ At(Verifier, "reset")
    /\ LET r == Local(Verifier).r
           uid == Local(Verifier).out.user
       IN  loginAttempts' =
               ResetFailedLoginAttempts(loginAttempts, r.ip, EmailOf(uid), r.ua,
                                        FindUser(users, EmailOf(uid)), now, "none")
    /\ Goto(Verifier, [Local(Verifier) EXCEPT !.pc = "respond"])
    /\ failed' = {}
    /\ UNCHANGED <<users, trustedDevices, issued, history, req, resp>>
    /\ UnchangedSetting

\* The 200 answer with the session token.
VerifyRespondStep ==
    /\ At(Verifier, "respond")
    /\ LET r == Local(Verifier).r
           uid == Local(Verifier).out.user
       IN  /\ req' = r
           /\ resp' = Reply(200, "VERIFIED", uid, GenerateToken(uid, FALSE, now),
                            {})
           /\ history' = [history EXCEPT !.verified =
                             @ \cup {[uid |-> uid, at |-> now, token |-> r.token]}]
    /\ Goto(Verifier, IdleProc)
    /\ failed' = {}
    /\ UnchangedStore
    /\ UnchangedSetting

\* The sweep's findMany of the accounts to warn.
SweepFindStep ==
    /\ At(Sweeper, "idle")
    /\ Goto(Sweeper, [IdleProc EXCEPT !.pc = "warn",
                         !.out = [toWarn |-> AccountsToWarn(users, now,
                                     DaysBeforeWarning, DaysBeforeDeletion)]])
    /\ failed' = {}
    /\ UnchangedStore
    /\ UnchangedSetting
    /\ UNCHANGED <<history, req, resp>>

\* The warning loop over the accounts found.
SweepWarnStep ==
    /\ At(Sweeper, "warn")
    /\ LET sent == Local(Sweeper).out.toWarn \cap DOMAIN users
       IN  /\ users' = Warned(users, sent, now)
           /\ history' = [history EXCEPT !.warned =
                             @ \cup {[uid |-> u, at |-> now] : u \in sent}]
           /\ Goto(Sweeper, [Local(Sweeper) EXCEPT !.pc = "delete",
                                 !.out = [warned |-> sent]])
    /\ failed' = {}
    /\ UNCHANGED <<loginAttempts, trustedDevices, issued, req, resp>>
    /\ UnchangedSetting

\* The sweep's deleteMany.
SweepDeleteStep ==
    /\ At(Sweeper, "delete")
    /\ LET gone == Stale(users, now, DaysBeforeDeletion)
       IN  /\ users' = [u \in DOMAIN users \ gone |-> users[u]]
           /\ trustedDevices' = {d \in trustedDevices : d.uid \notin gone}
           /\ loginAttempts' = Orphaned(loginAttempts, gone)
           /\ req' = [op |-> "cleanup", sendWarningEmails |-> TRUE]
           /\ resp' = [status |-> 0, code |-> "DONE", user |-> NoUser,
                       token |-> NoToken, mailed |-> {}, deleted |-> gone,
                       warned |-> Local(Sweeper).out.warned]
    /\ Goto(Sweeper, IdleProc)
    /\ failed' = {}
    /\ UNCHANGED <<issued, history>>
    /\ UnchangedSetting

NextRace ==
    \/ VerifyFindStep
    \/ VerifyUpdateStep
    \/ VerifyResetStep
    \/ VerifyRespondStep
    \/ SweepFindStep
    \/ SweepWarnStep
    \/ SweepDeleteStep
    \/ ResendEmailVerification
    \/ Tick

SpecRace == InitRace /\ [][NextRace]_vars

\* C26: however the sweep's store calls interleave with those of a
\* verifyEmailWithOTP for the same account, the deleteMany removes no account
\* that is verified when it runs, and an account whose verification has
\* answered success stays in the table.
C26_SweepSparesVerified ==
    /\ [](\A h \in history.verified : h.uid \in DOMAIN users)
    /\ [][\A u \in DOMAIN users \ DOMAIN users' :
             ~users[u].isEmailVerified]_vars

\* The deleteMany has run between the verification's update and its answer,
\* on an account past the deletion threshold, and has left it in place.
C26_Witness ==
    /\ req # Idle /\ req.op = "cleanup"
    /\ At(Verifier, "respond")
    /\ \E u \in DOMAIN users :
          /\ u = Local(Verifier).out.user
          /\ users[u].createdAt < now - DaysBeforeDeletion * DAY

-----------------------------------------------------------------------------
(* Password reset by email: forgotPassword, resetPassword and the clock. *)

MaxResets == 2

\* A local account, or one that signs in with Google.
PasswordScenarios ==
    { [users |-> [u \in UserIds |-> account],
       callers |-> {LoginRequest(ClientA, "good")},
       ticks |-> MaxTicks,
       limits |-> [rows |-> MaxRowsNarrow, issued |-> MaxIssuedNarrow,
                   resets |-> MaxResets]] :
      account \in {LocalVerified, Federated} }

InitPassword ==
    /\ faults = {}
    /\ steps = {FORGOT_INTERVAL, OTP_EXPIRY}
    /\ \E sc \in PasswordScenarios : InitStore(sc)

NextPassword ==
    \/ ForgotPassword
    \/ ResetPassword
    \/ Tick

SpecPassword == InitPassword /\ [][NextPassword]_vars

IsForgotStep == req' # Idle /\ req'.op = "forgotPassword"

\* What the caller of forgotPassword sees: the HTTP status and the body, for
\* which the outcome's code stands (the body of SENT has its own message and
\* an expiresAt field, that of SENT_IF_EXISTS the generic message).
Visible(a) == [status |-> a.status, body |-> a.code]

\* forgotPassword's answer, in the current state, for an address without account.
UnknownEmailAnswer ==
    ForgotPasswordOutcome([op |-> "forgotPassword", email |-> "ghost@x.com"],
                          NoToken, TRUE).resp

\* C27: forgotPassword answers a request for the address of an existing
\* account with the same status and body as a request for an address that has
\* no account.
C27_ForgotAnswersAlike ==
    [][IsForgotStep => Visible(resp') = Visible(UnknownEmailAnswer)]_vars

\* C28: a forgotPassword request for an account whose previous accepted
\* request is less than a minute old is answered 429 and writes nothing; one
\* that arrives a minute or more after it is accepted.
C28_ForgotThrottledPerMinute ==
    [][(/\ IsForgotStep
        /\ FindUser(users, req'.email) # NoUser
        /\ users[FindUser(users, req'.email)].provider = "local"
        /\ history.forgotAt # NullTime) =>
        IF now - history.forgotAt < FORGOT_INTERVAL
        THEN resp'.status = 429 /\ users' = users
        ELSE resp'.code = "SENT"]_vars

IsResetStep == req' # Idle /\ req'.op = "resetPassword"

\* The reset tokens that a later forgotPassword has replaced.
SupersededResets ==
    {[k |-> "reset", n |-> ResetNonceSeq[i]] :
        i \in 1..(Cardinality(history.drawn) - 1)}

\* C29: resetPassword changes a password only for the account whose stored
\* resetPasswordToken is the digest of the presented token and whose
\* resetPasswordExpires is in the future; it then clears both fields; a token
\* already redeemed, or replaced by a newer request, changes nothing.
C29_ResetTokenIsSingleUse ==
    [][IsResetStep =>
        IF resp'.code = "OK"
        THEN /\ resp'.user \in DOMAIN users
             /\ users[resp'.user].resetPasswordToken = Hash(req'.token)
             /\ users[resp'.user].resetPasswordExpires # NullTime
             /\ users[resp'.user].resetPasswordExpires > now
             /\ users'[resp'.user].password = req'.password
             /\ users'[resp'.user].resetPasswordToken = NoToken
             /\ users'[resp'.user].resetPasswordExpires = NullTime
             /\ req'.token \notin history.redeemed \cup SupersededResets
        ELSE users' = users]_vars

\* A token that has reset the password and has since been replaced by a newer
\* request is presented again and refused.
C29_Witness ==
    /\ req # Idle /\ req.op = "resetPassword"
    /\ req.token \in history.redeemed \cap SupersededResets
    /\ req.password = "new"
    /\ resp.code = "INVALID_TOKEN"

-----------------------------------------------------------------------------
(* What a failed login tells its caller. *)

\* The status, the code and the message of a login response: the message is
\* fixed by the code together with the attempts left or the lockout time.
Seen(a) ==
    [status |-> a.status, code |-> a.code,
     message |-> <<a.code, a.left, a.remaining>>]

\* The login r would get, in the current state, with an identifier that no
\* account has.
UnknownIdentifierAnswer(r) ==
    LoginOutcome([r EXCEPT !.id = "ghost@x.com"], {}, NoOTP, NoToken).resp

\* The attempts on record count alike for r's identifier and for the unknown one.
SameHistory(r) ==
    \A x \in BagToSet(loginAttempts) :
        Matches(x, r.ip, r.id, r.dev) <=> Matches(x, r.ip, "ghost@x.com", r.dev)

\* C30: with the same attempts on record, a login with an existing identifier
\* and a wrong password is answered with the same status, code and message as
\* a login with an unknown identifier.
C30_FailedLoginsAnswerAlike ==
    [][(/\ req' # Idle /\ req'.op = "login"
        /\ FindUser(users, req'.id) # NoUser
        /\ users[FindUser(users, req'.id)].password # ""
        /\ req'.pw # users[FindUser(users, req'.id)].password
        /\ SameHistory(req')) =>
        Seen(resp') = Seen(UnknownIdentifierAnswer(req'))]_vars

\* ---------------------------------------------------------------------------
\* Federated login against the accounts table
\* ---------------------------------------------------------------------------

IsGoogleStep == req' # Idle /\ req'.op = "googleLogin"

\* The profile is not yet tied to any account, and its email belongs to an
\* account registered with a password.
MeetsLocalAccount(us, r) ==
    /\ \A u \in DOMAIN us :
          ~(us[u].provider = "google" /\ us[u].providerId = r.providerId)
    /\ FindUser(us, r.email) # NoUser
    /\ us[FindUser(us, r.email)].provider = "local"

C32_FederatedUserIsPreVerified ==
    [][ /\ IsGoogleStep =>
              \A u \in DOMAIN users' \ DOMAIN users : users'[u].isEmailVerified
        /\ IsSweepStep =>
              \A u \in DOMAIN users :
                  users[u].provider = "google" =>
                      /\ u \in DOMAIN users'
                      /\ u \notin resp'.deleted \cup resp'.warned ]_vars

-----------------------------------------------------------------------------
(* Failed logins against one account interleaved with successful logins to
   another account from the same address and device. *)

\* The owner of account bob, at the address and device ClientA guesses from.
ClientF == [ip |-> "1.2.3.4", id |-> "bob@x.com", dev |-> "d1"]

InterleaveScenarios ==
    { [users |-> [u \in UserIds \cup OtherUserIds |-> LocalVerified],
       callers |-> {LoginRequest(ClientA, "bad"), LoginRequest(ClientF, "good")},
       ticks |-> MaxTicks,
       limits |-> [rows |-> MaxRows, issued |-> MaxIssued, resets |-> 1]] }

InitInterleave ==
    /\ faults = {}
    /\ steps = {1, LOCKOUT_DURATION}
    /\ \E sc \in InterleaveScenarios : InitStore(sc)

NextInterleave ==
    \/ \E r \in callers : Login(r)
    \/ Tick

SpecInterleave == InitInterleave /\ [][NextInterleave]_vars

\* C33: the failures counted against an account are cleared only by a
\* successful login to that account: a successful login to another account
\* from the same address and device leaves the failures the guard counts for
\* the first account as they were.
C33_OnlyOwnSuccessClearsFailures ==
    [][(req' # Idle /\ req'.op = "login" /\ resp'.status = 200) =>
        \A r \in callers :
            FindUser(users, r.id) \notin {NoUser, FindUser(users, req'.id)} =>
                CountedFailures(loginAttempts, r, now)
                    \subseteq CountedFailures(loginAttempts', r, now)]_vars

-----------------------------------------------------------------------------
(* verifyOTP one store call at a time, for two requests in flight. *)

\* findUnique and the checks made on the row it returned.
OtpFindStep(p) ==
    /\ At(p, "idle")
    /\ \E otp \in Otps, tok \in issued, remember \in BOOLEAN :
         LET r == [op |-> "verifyOTP", otp |-> otp, tempToken |-> tok,
                   rememberDevice |-> remember]
             out == VerifyOTPOutcome(r, "none")
         IN  IF out.resp.status = 200
             THEN /\ Goto(p, [IdleProc EXCEPT
                                !.pc = "clear", !.r = r,
                                !.out = [user |-> VerifyToken(tok, now).id]])
                  /\ UNCHANGED <<req, resp>>
             ELSE /\ req' = r
                  /\ resp' = out.resp
                  /\ UNCHANGED inflight
    /\ failed' = {}
    /\ UnchangedStore
    /\ UnchangedSetting
    /\ UNCHANGED history

\* prisma.user.update that clears the code and the latest temporary token.
OtpClearStep(p) ==
    /\ At(p, "clear")
    /\ users' = ClearedOtp(users, Local(p).out.user)
    /\ Goto(p, [Local(p) EXCEPT !.pc = "save"])
    /\ failed' = {}
    /\ UNCHANGED <<loginAttempts, trustedDevices, issued, history, req, resp>>
    /\ UnchangedSetting

\* saveTrustedDevice when the request asked for it and the token has a device.
OtpSaveStep(p) ==
    /\ At(p, "save")
    /\ LET r == Local(p).r
           decoded == VerifyToken(r.tempToken, now)
       IN  trustedDevices' =
               IF r.rememberDevice /\ decoded # NoToken
               THEN SaveTrustedDevice(trustedDevices, Local(p).out.user,
                                      decoded.dev, now)
               ELSE trustedDevices
    /\ Goto(p, [Local(p) EXCEPT !.pc = "respond"])
    /\ failed' = {}
    /\ UNCHANGED <<users, loginAttempts, issued, history, req, resp>>
    /\ UnchangedSetting

\* generateToken(user) and the 200 answer; the request stays on record until
\* its connection is closed.
OtpRespondStep(p) ==
    /\ At(p, "respond")
    /\ req' = Local(p).r
    /\ resp' = Response(200, "OK",
                        GenerateToken(Local(p).out.user, FALSE, now),
                        NullTime, NullTime)
    /\ Goto(p, [Local(p) EXCEPT !.pc = "answered"])
    /\ history' = [history EXCEPT !.consumed = @ \cup {Local(p).r.tempToken}]
    /\ failed' = {}
    /\ UnchangedStore
    /\ UnchangedSetting

OtpCloseStep(p) ==
    /\ At(p, "answered")
    /\ Goto(p, IdleProc)
    /\ failed' = {}
    /\ UNCHANGED <<req, resp, history>>
    /\ UnchangedStore
    /\ UnchangedSetting

OtpRaceScenarios ==
    { [users |-> [u \in UserIds |-> LocalTwoFactor],
       callers |-> {LoginRequest(ClientA, "good")},
       ticks |-> MaxTicksWide,
       limits |-> [rows |-> MaxRowsNarrow, issued |-> MaxIssuedNarrow,
                   resets |-> 1]] }

InitOtpRace ==
    /\ faults = {}
    /\ steps = {REGENERATE_INTERVAL}
    /\ \E sc \in OtpRaceScenarios : InitStore(sc)

NextOtpRace ==
    \/ \E r \in callers : Login(r)
    \/ \E p \in Procs : OtpFindStep(p)
    \/ \E p \in Procs : OtpClearStep(p)
    \/ \E p \in Procs : OtpSaveStep(p)
    \/ \E p \in Procs : OtpRespondStep(p)
    \/ \E p \in Procs : OtpCloseStep(p)
    \/ Tick

SpecOtpRace == InitOtpRace /\ [][NextOtpRace]_vars

\* C34: of two concurrent verifyOTP requests that present the same valid code
\* and temporary token, at most one is answered with a session token.
C34_OneSessionPerCode ==
    ~ \E p, q \in Procs :
        /\ p # q
        /\ At(p, "answered") /\ At(q, "answered")
        /\ Local(p).r.otp = Local(q).r.otp
        /\ Local(p).r.tempToken = Local(q).r.tempToken

-----------------------------------------------------------------------------
(* Further properties of two-factor sign-in. *)

\* C35: regenerateOTP issues a new code and temporary token only when the
\* temporary token it is given equals the user's stored lastTempToken; a
\* superseded or consumed temporary token obtains nothing.
C35_RegenerateNeedsLatestToken ==
    [][(IsRegenerateStep /\ resp'.code = "OTP_REGENERATED") =>
        IsLatestTempToken(users[VerifyToken(req'.tempToken, now).id],
                          req'.tempToken)]_vars

\* verifyOTP when its clearing update or saveTrustedDevice can throw.
InitVerifyFault ==
    /\ faults = {"clear", "save"}
    /\ steps = {REGENERATE_INTERVAL}
    /\ \E sc \in OtpRaceScenarios : InitStore(sc)

NextVerifyFault ==
    \/ \E r \in callers : Login(r)
    \/ VerifyOTP
    \/ Tick

SpecVerifyFault == InitVerifyFault /\ [][NextVerifyFault]_vars

\* C36: verifyOTP is all-or-nothing: when a step after the checks fails (the
\* clearing update or saveTrustedDevice throws), the request is answered with
\* an error and twoFactorOTP, twoFactorExpires and lastTempToken are as they
\* were before the call.
C36_VerifyIsAllOrNothing ==
    [][(IsVerifyStep /\ failed' # {}) =>
        /\ resp'.status = 500
        /\ \A u \in DOMAIN users :
              /\ users'[u].twoFactorOTP = users[u].twoFactorOTP
              /\ users'[u].twoFactorExpires = users[u].twoFactorExpires
              /\ users'[u].lastTempToken = users[u].lastTempToken]_vars

-----------------------------------------------------------------------------
(* Further properties of email verification. *)

\* The accounts a verification by code alone can land on: those that hold the
\* code with an unexpired emailVerifyExpires.
HoldersOf(us, otp, t) ==
    {u \in DOMAIN us : /\ us[u].twoFactorOTP = otp
                       /\ us[u].emailVerifyExpires # NullTime
                       /\ us[u].emailVerifyExpires > t}

\* C37: verifyEmailWithOTP without a link token verifies the account its code
\* was issued to: it never verifies an account picked among several unverified
\* accounts that hold the same unexpired code.
C37_CodeAloneNamesOneAccount ==
    [][(IsEmailVerifyStep /\ req'.token = NoToken /\ resp'.code = "VERIFIED") =>
        HoldersOf(users, req'.otp, now) = {resp'.user}]_vars

-----------------------------------------------------------------------------
(* Further properties of the login guard. *)

\* The guard's first check finds the caller of r locked.
LockedAtEntry(r) ==
    CheckBruteForceProtection(loginAttempts, r.ip, r.id, r.dev, now, FALSE).isLocked

\* C38: a login rejected by the initial lock check is answered 429
\* ACCOUNT_LOCKED, writes no login_attempts row and changes no user state.
C38_LockedLoginWritesNothing ==
    [][(req' # Idle /\ req'.op = "login" /\ LockedAtEntry(req')) =>
        /\ resp'.status = 429 /\ resp'.code = "ACCOUNT_LOCKED"
        /\ loginAttempts' = loginAttempts
        /\ users' = users
        /\ issued' = issued
        /\ trustedDevices' = trustedDevices]_vars

\* A login with the account's own password has been turned away as locked:
\* only the first check answers 429 to a correct password.
C38_Witness ==
    /\ req # Idle /\ req.op = "login"
    /\ resp.status = 429 /\ resp.code = "ACCOUNT_LOCKED"
    /\ FindUser(users, req.id) # NoUser
    /\ req.pw = users[FindUser(users, req.id)].password
    /\ LockedAtEntry(req)

-----------------------------------------------------------------------------
(* The two flows that store their code in twoFactorOTP: email verification
   and two-factor sign-in, for one account that goes through both. *)

CrossFlowScenarios ==
    { [users |-> [u \in UserIds |-> UserRow("good", FALSE, TRUE)],
       callers |-> {LoginRequest(ClientA, "good")},
       ticks |-> MaxTicksWide,
       limits |-> [rows |-> MaxRows, issued |-> MaxIssuedNarrow, resets |-> 1]] }

InitCrossFlow ==
    /\ faults = {}
    /\ steps = {REGENERATE_INTERVAL}
    /\ \E sc \in CrossFlowScenarios : InitStore(sc)

NextCrossFlow ==
    \/ \E r \in callers : Login(r)
    \/ ResendEmailVerification
    \/ VerifyEmailWithOTP
    \/ VerifyOTP
    \/ RegenerateOTP
    \/ Tick

SpecCrossFlow == InitCrossFlow /\ [][NextCrossFlow]_vars

\* The flow a row's stored code can be redeemed in: verifyEmailWithOTP asks
\* for a live emailVerifyExpires, verifyOTP for a live twoFactorExpires.
InEmailFlow(row) == row.emailVerifyExpires # NullTime
InTwoFactorFlow(row) == row.twoFactorExpires # NullTime

IssuesEmailCode ==
    /\ req' # Idle
    /\ \/ req'.op = "resendEmailVerification"
       \/ req'.op = "login" /\ resp'.status = 403

IssuesTwoFactorCode ==
    /\ req' # Idle
    /\ \/ req'.op = "regenerateOTP"
       \/ req'.op = "login" /\ resp'.status = 200

\* C39: the two flows share the twoFactorOTP column but never each other's
\* codes: a code stored by the email-verification flow is redeemable by
\* verifyEmailWithOTP only, a code stored by two-factor sign-in by verifyOTP
\* only, a stored code never changes flow, and each redemption consumes a
\* code of its own flow.
C39_CodesStayInTheirFlow ==
    [][\A u \in DOMAIN users \cap DOMAIN users' :
        LET a == users[u]
            b == users'[u]
        IN  /\ (b.twoFactorOTP # NoOTP /\ b # a /\ IssuesEmailCode) =>
                   InEmailFlow(b) /\ ~InTwoFactorFlow(b)
            /\ (b.twoFactorOTP # NoOTP /\ b # a /\ IssuesTwoFactorCode) =>
                   InTwoFactorFlow(b) /\ ~InEmailFlow(b)
            /\ (b.twoFactorOTP # NoOTP /\ b.twoFactorOTP = a.twoFactorOTP) =>
                   /\ InEmailFlow(b) = InEmailFlow(a)
                   /\ InTwoFactorFlow(b) = InTwoFactorFlow(a)
            /\ (IsVerifyStep /\ resp'.status = 200
                    /\ VerifyToken(req'.tempToken, now).id = u) =>
                   InTwoFactorFlow(a) /\ ~InEmailFlow(a)
            /\ (IsEmailVerifyStep /\ resp'.code = "VERIFIED" /\ resp'.user = u) =>
                   InEmailFlow(a) /\ ~InTwoFactorFlow(a)]_vars

\* The account has redeemed a code in each flow: verified by
\* verifyEmailWithOTP earlier, and now signed in by verifyOTP.
C39_Witness ==
    /\ req # Idle /\ req.op = "verifyOTP"
    /\ resp.status = 200
    /\ \E h \in history.verified :
          h.uid = VerifyToken(req.tempToken, now).id

-----------------------------------------------------------------------------
(* Two executions of cleanupUnverifiedAccounts that overlap: the nightly job
   and a second instance or the manual script, one store call at a time. *)

\* findMany of the accounts due a warning.
SweepFind(p) ==
    /\ At(p, "idle")
    /\ Goto(p, [IdleProc EXCEPT !.pc = "warn",
                   !.out = [toWarn |-> AccountsToWarn(users, now,
                               DaysBeforeWarning, DaysBeforeDeletion)]])
    /\ failed' = {}
    /\ UnchangedStore
    /\ UnchangedSetting
    /\ UNCHANGED <<history, req, resp>>

\* The loop over the accounts found: the email, then the update that stamps
\* lastWarningEmailSentAt and increments warningEmailCount. The update of a
\* row that is gone throws and is logged.
SweepWarn(p) ==
    /\ At(p, "warn")
    /\ LET mailed == Local(p).out.toWarn
           sent == mailed \cap DOMAIN users
       IN  /\ users' = Warned(users, sent, now)
           /\ history' = [history EXCEPT !.warned =
                             @ \cup {[uid |-> u, at |-> now, by |-> p] :
                                        u \in mailed}]
           /\ Goto(p, [Local(p) EXCEPT !.pc = "delete",
                                       !.out = [warned |-> mailed]])
    /\ failed' = {}
    /\ UNCHANGED <<loginAttempts, trustedDevices, issued, req, resp>>
    /\ UnchangedSetting

\* deleteMany and the result.
SweepDelete(p) ==
    /\ At(p, "delete")
    /\ LET gone == Stale(users, now, DaysBeforeDeletion)
       IN  /\ users' = [u \in DOMAIN users \ gone |-> users[u]]
           /\ trustedDevices' = {d \in trustedDevices : d.uid \notin gone}
           /\ loginAttempts' = Orphaned(loginAttempts, gone)
           /\ req' = [op |-> "cleanup", sendWarningEmails |-> TRUE]
           /\ resp' = [status |-> 0, code |-> "DONE", user |-> NoUser,
                       token |-> NoToken, mailed |-> {}, deleted |-> gone,
                       warned |-> Local(p).out.warned]
    /\ Goto(p, IdleProc)
    /\ failed' = {}
    /\ UNCHANGED <<issued, history>>
    /\ UnchangedSetting

\* Two unverified accounts inside the warning window, four and six days old.
OverlapScenarios ==
    { [users |-> [u \in UserIds \cup OtherUserIds |->
                    [LocalUnverified EXCEPT !.createdAt =
                        IF u \in UserIds THEN 0 - 4 * DAY ELSE 0 - 6 * DAY]],
       callers |-> {LoginRequest(ClientA, "good")},
       ticks |-> MaxTicks,
       limits |-> [rows |-> MaxRowsNarrow, issued |-> MaxIssuedNarrow,
                   resets |-> 1]] }

InitOverlap ==
    /\ faults = {}
    /\ steps = {DAY \div 2, DAY + 1}
    /\ \E sc \in OverlapScenarios : InitStore(sc)

NextOverlap ==
    \/ \E p \in Procs : SweepFind(p)
    \/ \E p \in Procs : SweepWarn(p)
    \/ \E p \in Procs : SweepDelete(p)
    \/ Tick

SpecOverlap == InitOverlap /\ [][NextOverlap]_vars

\* C40: when two executions of cleanupUnverifiedAccounts overlap, no account
\* is sent two warnings less than WARNING_EMAIL_INTERVAL apart, and the
\* warningEmailCount of every account equals the number of warnings sent to it.
C40_OverlappingSweepsWarnOnce ==
    /\ \A v, w \in history.warned :
          (v # w /\ v.uid = w.uid) =>
              (v.at - w.at >= WARNING_EMAIL_INTERVAL
                  \/ w.at - v.at >= WARNING_EMAIL_INTERVAL)
    /\ \A u \in DOMAIN users :
          users[u].warningEmailCount = Cardinality(WarningsTo(history, u))

============================================================================
